---- MODULE Spec2Model ----
(***************************************************************************)
(* A model of export_doc_func.py, the Markdown-to-Word export action.      *)
(*                                                                         *)
(* The module holds several state machines over one set of variables, one  *)
(* per component of the program:                                           *)
(*   SpecTable     Action.add_table's column-width layout                  *)
(*   SpecCite      Action._build_citation_refs                             *)
(*   SpecAssemble  the line loop of Action.markdown_to_docx (one handler)  *)
(*   Spec          Action.action: overlapping invocations on one handler   *)
(*   SpecRender    the client script Action.action hands to the browser    *)
(*   SpecInline    Action._add_inline_segments                             *)
(*   SpecImage     Action._embed_markdown_image and the fetch of its bytes *)
(* A specification leaves the variables of the other components parked at  *)
(* their initial value.                                                    *)
(*                                                                         *)
(* Text is modelled as a sequence of one-character strings, a transcript   *)
(* as a sequence of such lines.                                            *)
(***************************************************************************)
EXTENDS Integers, Sequences, FiniteSets, TLC

VARIABLES
    tb,     \* add_table: the table being laid out
    cite,   \* _build_citation_refs: the loop's position and maps
    asm,    \* markdown_to_docx on a handler of its own: locals and scratch
    self,   \* the long-lived Action object shared by all invocations
    task,   \* Action.action: one record per invocation (locals, position)
    rd,     \* the client script's run
    inl,    \* _add_inline_segments: the stack of activations
    img     \* _embed_markdown_image: one image and the fetch of its bytes

vars == <<tb, cite, asm, self, task, rd, inl, img>>

None == "None"

Max(a, b) == IF a >= b THEN a ELSE b
Min(a, b) == IF a <= b THEN a ELSE b

RECURSIVE SumSeq(_)
SumSeq(s) == IF s = <<>> THEN 0 ELSE Head(s) + SumSeq(Tail(s))

\* All sequences over S of length lo..hi.
SeqsOf(S, lo, hi) == UNION {[1..n -> S] : n \in lo..hi}

(***************************************************************************)
(* Table layout: Action.add_table, column widths                           *)
(***************************************************************************)

\* Bounds of the table inputs.
MaxTableCols == 20

\* int(Inches(0.55)), in EMU.
MinCellWidth == 502920
\* The weight clamp of a column: max(1, min(max_len, 40)).
MaxWeight == 40

\* Available content widths (EMU) of the document's first section:
\* 6 in (the default template: Letter, 1.25 in margins), 6.5 in, and A4 with
\* 1 in margins.
AvailableWidths == {5486400, 5943600, 5731510}

\* Longest plain-text cell length of a column, as _plain_len reports it.
CellLens == {0, 3, 17, 40, 95}

Rep(n, x) == [k \in 1..n |-> x]

\* The columns of the tables laid out: a run of columns of one length followed
\* by a run of columns of another.
TableInputs ==
    {Rep(a, x) \o Rep(b, y) :
        <<a, b, x, y>> \in {q \in (0..MaxTableCols) \X (0..MaxTableCols) \X CellLens \X CellLens :
                               q[1] + q[2] >= 1 /\ q[1] + q[2] <= MaxTableCols}}

\* weights.append(max(1, min(max_len, 40)))
Weights(lens) == [ci \in 1..Len(lens) |-> Max(1, Min(lens[ci], MaxWeight))]

\* min_col = max(int(Inches(0.55)), available_width // max(1, num_cols * 3))
MinCol(avail, num_cols) == Max(MinCellWidth, avail \div Max(1, num_cols * 3))

\* widths = [max(min_col, int(available_width * w / sum_w)) for w in weights]
\* (the float quotient of two integers this small truncates to the integer quotient)
ProportionalWidths(avail, weights) ==
    LET sum_w == IF SumSeq(weights) = 0 THEN 1 ELSE SumSeq(weights)
    IN  [ci \in 1..Len(weights) |->
            Max(MinCol(avail, Len(weights)), (avail * weights[ci]) \div sum_w)]

\* if total > available_width: even = max(1, available_width // max(1, num_cols))
EvenFallback(avail, widths) ==
    IF SumSeq(widths) > avail
    THEN Rep(Len(widths), Max(1, avail \div Max(1, Len(widths))))
    ELSE widths

\* order = sorted(range(num_cols), key=lambda i: weights[i], reverse=True):
\* the position of column ci in the (stable) descending order, from 0.
OrderPos(weights, ci) ==
    Cardinality({cj \in 1..Len(weights) : weights[cj] > weights[ci]})
    + Cardinality({cj \in 1..(ci - 1) : weights[cj] = weights[ci]})

OrderAt(weights, p) == CHOOSE ci \in 1..Len(weights) : OrderPos(weights, ci) = p

\* while rem > 0 and order: widths[order[oi % len(order)]] += 1; rem -= 1; oi += 1
RECURSIVE HandOut(_, _, _, _)
HandOut(widths, weights, rem, oi) ==
    IF rem > 0 /\ Len(widths) > 0
    THEN LET ci == OrderAt(weights, oi % Len(widths))
         IN  HandOut([widths EXCEPT ![ci] = @ + 1], weights, rem - 1, oi + 1)
    ELSE widths

DistributeRemainder_Dropped(avail, widths, weights) == widths

\* if total < available_width: rem = available_width - total; ...
DistributeRemainder(avail, widths, weights) ==
    IF SumSeq(widths) < avail
    THEN HandOut(widths, weights, avail - SumSeq(widths), 0)
    ELSE widths

ColumnWidths(avail, lens) ==
    LET weights == Weights(lens)
    IN  DistributeRemainder(avail, EvenFallback(avail, ProportionalWidths(avail, weights)), weights)

TableParked == [pc |-> "parked", avail |-> 0, lens |-> <<>>, widths |-> <<>>, path |-> None]

TableInit ==
    \E avail \in AvailableWidths, lens \in TableInputs :
        tb = [pc |-> "layout", avail |-> avail, lens |-> lens, widths |-> <<>>, path |-> None]

\* The width part of add_table: from the weights to table.columns[ci].width.
AddTableWidths ==
    /\ tb.pc = "layout"
    /\ LET weights == Weights(tb.lens)
           prop == ProportionalWidths(tb.avail, weights)
       IN  tb' = [tb EXCEPT
                    !.pc = "done",
                    !.widths = ColumnWidths(tb.avail, tb.lens),
                    !.path = IF SumSeq(prop) > tb.avail THEN "overshoot"
                             ELSE IF SumSeq(prop) < tb.avail THEN "undershoot"
                             ELSE "fit"]

TableNext == AddTableWidths

(***************************************************************************)
(* Citations: Action._build_citation_refs                                  *)
(***************************************************************************)

\* The most documents one call scans.
MaxCiteDocs == 3

Whitespace == {" ", "\t", "\n", "\r"}

IsBlank(s) == \A k \in 1..Len(s) : s[k] \in Whitespace

StartsWith(s, p) == Len(s) >= Len(p) /\ SubSeq(s, 1, Len(p)) = p

EndsWith(s, p) == Len(s) >= Len(p) /\ SubSeq(s, Len(s) - Len(p) + 1, Len(s)) = p

\* An absent optional string (None).
NoStr == <<"<None>">>

\* An entry of sources that is not a dict.
NotADict == [dict |-> FALSE, id |-> NoStr, name |-> NoStr, urls |-> <<>>]

\* Python truthiness of an optional string: neither None nor "".
Truthy(x) == x # NoStr /\ x # <<>>

\* re.match(r"^https?://", s)
IsHttpUrl(s) ==
    /\ s # NoStr
    /\ \/ StartsWith(s, <<"h", "t", "t", "p", ":", "/", "/">>)
       \/ StartsWith(s, <<"h", "t", "t", "p", "s", ":", "/", "/">>)

\* Metadata records a document may carry ({} when metadatas is short).
Metas ==
    { [source |-> NoStr, title |-> NoStr, name |-> NoStr, url |-> NoStr],
      [source |-> <<"s", "1">>, title |-> <<"T", "1">>, name |-> NoStr, url |-> NoStr],
      [source |-> <<"s", "1">>, title |-> <<"T", "2">>, name |-> NoStr,
       url |-> <<"h", "t", "t", "p", ":", "/", "/", "m">>],
      [source |-> <<"h", "t", "t", "p", "s", ":", "/", "/", "u">>, title |-> NoStr,
       name |-> <<"n">>, url |-> NoStr],
      [source |-> <<>>, title |-> <<>>, name |-> NoStr, url |-> <<"x">>] }

\* The "source" object of a source-group.
Groups ==
    { [dict |-> TRUE, id |-> NoStr, name |-> NoStr, urls |-> <<>>],
      [dict |-> TRUE, id |-> <<"g">>, name |-> <<"N">>, urls |-> << <<"h", "t", "t", "p", ":", "/", "/", "g">> >>],
      [dict |-> TRUE, id |-> <<"s", "1">>, name |-> <<" ">>, urls |-> << <<"f", "t", "p", ":", "x">> >>] }

\* source_id = meta.get("source") or src_id_default or "N/A"; str(source_id)
SourceId(meta, group) ==
    IF Truthy(meta.source) THEN meta.source
    ELSE IF Truthy(group.id) THEN group.id
    ELSE <<"N", "/", "A">>

\* The url of a new reference.
RefUrl(meta, group) ==
    IF IsHttpUrl(SourceId(meta, group)) THEN SourceId(meta, group)
    ELSE IF IsHttpUrl(meta.url) THEN meta.url
    ELSE IF Len(group.urls) > 0 /\ IsHttpUrl(group.urls[1]) THEN group.urls[1]
    ELSE NoStr

\* The title of a new reference.
RefTitle(meta, group) ==
    IF Truthy(meta.title) THEN meta.title
    ELSE IF Truthy(meta.name) THEN meta.name
    ELSE IF group.name # NoStr /\ ~IsBlank(group.name) THEN group.name
    ELSE IF Truthy(RefUrl(meta, group)) THEN RefUrl(meta, group)
    ELSE SourceId(meta, group)

\* anchor = f"OWUIRef{idx}"
Anchor(idx) == <<"OWUIRef", idx>>

\* if source_id_str not in citation_idx_map:
\*     citation_idx_map[source_id_str] = len(citation_idx_map) + 1
AssignIndex_Reused(idx_map, key) ==
    IF key \in DOMAIN idx_map THEN idx_map
    ELSE [k \in DOMAIN idx_map \cup {key} |->
            IF k = key THEN Max(1, Cardinality(DOMAIN idx_map)) ELSE idx_map[k]]

AssignIndex(idx_map, key) ==
    IF key \in DOMAIN idx_map THEN idx_map
    ELSE [k \in DOMAIN idx_map \cup {key} |->
            IF k = key THEN Cardinality(DOMAIN idx_map) + 1 ELSE idx_map[k]]

\* One iteration of the inner loop: the maps after document (meta, group).
ScanDocument(c, meta, group) ==
    LET key == SourceId(meta, group)
        idx_map == AssignIndex(c.citation_idx_map, key)
        idx == idx_map[key]
    IN  IF idx \in DOMAIN c.refs_by_idx
        THEN [c EXCEPT !.citation_idx_map = idx_map]
        ELSE [c EXCEPT
                !.citation_idx_map = idx_map,
                !.refs_by_idx = [k \in DOMAIN c.refs_by_idx \cup {idx} |->
                    IF k = idx
                    THEN [idx |-> idx, anchor |-> Anchor(idx),
                          title |-> RefTitle(meta, group), url |-> RefUrl(meta, group),
                          source_id |-> key]
                    ELSE c.refs_by_idx[k]]]

\* sorted(s) of a finite set of integers, as a sequence.
RECURSIVE SortedSeq(_)
SortedSeq(S) ==
    IF S = {} THEN <<>>
    ELSE LET m == CHOOSE x \in S : \A y \in S : x <= y
         IN  <<m>> \o SortedSeq(S \ {m})

\* return [refs_by_idx[i] for i in sorted(refs_by_idx.keys())]
RefList(refs_by_idx) ==
    LET order == SortedSeq(DOMAIN refs_by_idx)
    IN  [k \in 1..Len(order) |-> refs_by_idx[order[k]]]

\* _build_citation_refs as one function of the documents in scan order, each
\* paired with the source object of its group.
RECURSIVE ScanAll(_, _)
ScanAll(c, docs) ==
    IF docs = <<>> THEN c
    ELSE ScanAll(ScanDocument(c, Head(docs)[1], Head(docs)[2]), Tail(docs))

EmptyMaps == [citation_idx_map |-> <<>>, refs_by_idx |-> <<>>]

BuildCitationRefs(docs) == RefList(ScanAll(EmptyMaps, docs).refs_by_idx)

CiteParked ==
    [pc |-> "parked", group |-> NotADict, citation_idx_map |-> <<>>, refs_by_idx |-> <<>>,
     scanned |-> <<>>, result |-> <<>>]

CiteInit == cite = [CiteParked EXCEPT !.pc = "sources"]

\* for source in sources: the next source-group (a non-dict entry is skipped).
CiteNextSource ==
    /\ cite.pc \in {"sources", "documents"}
    /\ \E group \in Groups \cup {NotADict} :
        cite' = [cite EXCEPT !.pc = IF group.dict THEN "documents" ELSE "sources",
                             !.group = group]

\* for idx_doc, _doc_text in enumerate(documents): one document of the group.
CiteDocument ==
    /\ cite.pc = "documents"
    /\ Len(cite.scanned) < MaxCiteDocs
    /\ \E meta \in Metas :
        LET c == ScanDocument(cite, meta, cite.group)
        IN  cite' = [c EXCEPT !.scanned = Append(@, <<meta, cite.group>>)]

\* The sources are exhausted: the sorted reference list is returned.
CiteReturn ==
    /\ cite.pc \in {"sources", "documents"}
    /\ cite' = [cite EXCEPT !.pc = "done", !.result = RefList(cite.refs_by_idx)]

CiteNext == CiteNextSource \/ CiteDocument \/ CiteReturn

(***************************************************************************)
(* Text helpers                                                            *)
(***************************************************************************)

Digits == {"0", "1", "2", "3", "4", "5", "6", "7", "8", "9"}

UpperCase == <<"A", "B", "C", "D", "E", "F", "G", "H", "I", "J", "K", "L", "M",
               "N", "O", "P", "Q", "R", "S", "T", "U", "V", "W", "X", "Y", "Z">>
LowerCase == <<"a", "b", "c", "d", "e", "f", "g", "h", "i", "j", "k", "l", "m",
               "n", "o", "p", "q", "r", "s", "t", "u", "v", "w", "x", "y", "z">>

\* str.lower()
LowerChar(c) ==
    IF \E k \in 1..26 : UpperCase[k] = c
    THEN LowerCase[CHOOSE k \in 1..26 : UpperCase[k] = c]
    ELSE c
Lower(s) == [k \in 1..Len(s) |-> LowerChar(s[k])]

\* The number of leading characters of s that are in S.
RECURSIVE LeadCount(_, _)
LeadCount(s, S) ==
    IF s # <<>> /\ Head(s) \in S THEN 1 + LeadCount(Tail(s), S) ELSE 0

\* The number of trailing characters of s that are in S.
RECURSIVE TrailCount(_, _)
TrailCount(s, S) ==
    IF s # <<>> /\ s[Len(s)] \in S THEN 1 + TrailCount(SubSeq(s, 1, Len(s) - 1), S) ELSE 0

\* s[n:] of Python, n >= 0.
Drop(s, n) == SubSeq(s, n + 1, Len(s))

\* str.strip()
Strip(s) ==
    LET l == LeadCount(s, Whitespace)
    IN  IF l = Len(s) THEN <<>> ELSE SubSeq(s, l + 1, Len(s) - TrailCount(s, Whitespace))

\* str.strip(chars)
StripOf(s, S) ==
    LET l == LeadCount(s, S)
    IN  IF l = Len(s) THEN <<>> ELSE SubSeq(s, l + 1, Len(s) - TrailCount(s, S))

\* "\n".join(lines), the newlines kept as characters.
RECURSIVE JoinLines(_)
JoinLines(ls) ==
    IF ls = <<>> THEN <<>>
    ELSE IF Len(ls) = 1 THEN ls[1]
    ELSE ls[1] \o <<"\n">> \o JoinLines(Tail(ls))

\* The characters before the first newline.
RECURSIVE LineLength(_)
LineLength(text) ==
    IF text = <<>> \/ text[1] = "\n" THEN 0 ELSE 1 + LineLength(Tail(text))

\* text.split("\n")
RECURSIVE SplitLines(_)
SplitLines(text) ==
    LET n == LineLength(text)
    IN  IF n = Len(text) THEN <<text>>
        ELSE <<SubSeq(text, 1, n)>> \o SplitLines(Drop(text, n + 1))

(***************************************************************************)
(* Block assembler: Action.markdown_to_docx                                *)
(***************************************************************************)

\* The longest transcript assembled, in lines.
MaxLines == 3

\* The backslash, and the backquote (which a TLA+ string cannot hold).
BSL == "\\"
BQ == "<backquote>"

\* The lines transcripts are made of.
LineAlphabet ==
    { <<BQ, BQ, BQ>>,
      <<BQ, BQ, BQ, "M", "e", "r", "m", "a", "i", "d">>,
      <<"$", "$">>,
      <<BSL, "[">>,
      <<BSL, "]">>,
      <<"$", "$", "x", "$", "$">>,
      <<"x">>,
      <<>>,
      <<"-", " ", "a">>,
      <<" ", " ", "1", ".", " ", "b">>,
      <<"#", " ", "H">>,
      <<"|", "a", "|">>,
      <<">", "q">>,
      <<"-", "-", "-">> }

\* _extract_single_line_math: the stripped interior of \[ ... \] or $$ ... $$
\* on one line, NoStr when the line is neither.
ExtractSingleLineMath(line) ==
    LET s == Strip(line)
    IN  IF Len(s) >= 4 /\ StartsWith(s, <<BSL, "[">>) /\ EndsWith(s, <<BSL, "]">>)
        THEN Strip(SubSeq(s, 3, Len(s) - 2))
        ELSE IF Len(s) >= 4 /\ StartsWith(s, <<"$", "$">>) /\ EndsWith(s, <<"$", "$">>)
        THEN Strip(SubSeq(s, 3, Len(s) - 2))
        ELSE NoStr

MathOpeners == {<<BSL, "[">>, <<"$", "$">>}

\* close = r"\]" if math_block_delim == r"\[" else "$$"
MathCloser(delim) == IF delim = <<BSL, "[">> THEN <<BSL, "]">> ELSE <<"$", "$">>

IsFenceLine(line) == StartsWith(Strip(line), <<BQ, BQ, BQ>>)

RECURSIVE LeadNonWs(_)
LeadNonWs(s) == IF s # <<>> /\ Head(s) \notin Whitespace THEN 1 + LeadNonWs(Tail(s)) ELSE 0

\* _parse_fence_info(line.strip()[3:].strip())[0]: the first word of the info string.
FenceLang(line) ==
    LET info == Strip(Drop(Strip(line), 3))
    IN  SubSeq(info, 1, LeadNonWs(info))

IsTableStart(line) ==
    StartsWith(Strip(line), <<"|">>) /\ EndsWith(Strip(line), <<"|">>)

IsTableLine(line) == StartsWith(Strip(line), <<"|">>)

\* re.match(r"^(#{1,6})\s+(.+)$", line.strip())
HeadingLevel(line) ==
    LET s == Strip(line)
        h == LeadCount(s, {"#"})
    IN  IF h >= 1 /\ h <= 6 /\ Len(s) > h + 1 /\ s[h + 1] \in Whitespace THEN h ELSE 0

HeadingText(line) ==
    LET s == Strip(line)
        rest == Drop(s, HeadingLevel(line))
    IN  Drop(rest, LeadCount(rest, Whitespace))

\* The text group of r"\s+(.+)$" on rest, NoStr when it does not match: the
\* whitespace run is greedy but leaves the text one character at least.
ItemText(rest) ==
    LET w == LeadCount(rest, Whitespace)
    IN  IF w = 0 \/ Len(rest) < 2 THEN NoStr
        ELSE IF w = Len(rest) THEN Drop(rest, w - 1)
        ELSE Drop(rest, w)

\* re.match(r"^(\s*)[-*+]\s+(.+)$", line): <<indent, text>>, or <<>>.
UnorderedMatch(line) ==
    LET w == LeadCount(line, Whitespace)
        rest == Drop(line, w)
    IN  IF rest # <<>> /\ rest[1] \in {"-", "*", "+"} /\ ItemText(Tail(rest)) # NoStr
        THEN <<w \div 2, ItemText(Tail(rest))>>
        ELSE <<>>

\* re.match(r"^(\s*)\d+[.)]\s+(.+)$", line): <<indent, text>>, or <<>>.
OrderedMatch(line) ==
    LET w == LeadCount(line, Whitespace)
        rest == Drop(line, w)
        d == LeadCount(rest, Digits)
        after == Drop(rest, d)
    IN  IF d >= 1 /\ after # <<>> /\ after[1] \in {".", ")"} /\ ItemText(Tail(after)) # NoStr
        THEN <<w \div 2, ItemText(Tail(after))>>
        ELSE <<>>

IsQuoteLine(line) == StartsWith(Strip(line), <<">">>)

\* re.sub(r"^>\s?", "", line)
QuoteText(line) ==
    IF StartsWith(line, <<">">>)
    THEN IF Len(line) >= 2 /\ line[2] \in Whitespace THEN Drop(line, 2) ELSE Drop(line, 1)
    ELSE line

\* re.match(r"^[-*_]{3,}$", line.strip())
IsRule(line) ==
    LET s == Strip(line)
    IN  Len(s) >= 3 /\ \A k \in 1..Len(s) : s[k] \in {"-", "*", "_"}

\* The handler's default configuration, Valves(): the options the model reads.
DefaultValves ==
    [UI_LANGUAGE |-> "en", SHOW_STATUS |-> TRUE, MATH_ENABLE |-> TRUE,
     MERMAID_CAPTIONS_ENABLE |-> TRUE, MERMAID_CAPTION_PREFIX |-> <<>>,
     MERMAID_OPTIMIZE_LAYOUT |-> FALSE, TITLE_SOURCE |-> "chat_title"]

\* Action.__init__: the long-lived handler object.
NewHandler ==
    [valves |-> DefaultValves,
     mermaid_figure_counter |-> 0,
     mermaid_placeholder_counter |-> 0,
     citation_anchor_by_index |-> <<>>,
     citation_refs |-> <<>>,
     bookmark_id_counter |-> 1,
     active_doc |-> 0,
     user_lang |-> "en"]

\* _get_lang_key: 'zh-CN' -> 'zh', anything unknown -> 'en'.
GetLangKey(user_language) == IF user_language \in {"zh", "zh-CN"} THEN "zh" ELSE "en"

\* The figure prefix of the Chinese messages, one character.
ZhFigure == "<U+56FE>"

\* _get_msg(key): the message of the language, one per (language, key); the
\* figure prefix, which captions are built from, as its text.
GetMsg(lang, key) ==
    IF key = "figure_prefix"
    THEN IF lang = "zh" THEN <<ZhFigure>> ELSE <<"F", "i", "g", "u", "r", "e">>
    ELSE <<lang, key>>

\* The document blocks. A block's text is the text handed to
\* add_formatted_text; its inline spans are resolved by the inline resolver.
HeadingBlock(text, level) == [kind |-> "heading", level |-> Min(level, 9), text |-> text]
ParagraphBlock(text) == [kind |-> "paragraph", text |-> text]
CodeBlock(code, language) == [kind |-> "code", lang |-> language, text |-> code]
RuleBlock == [kind |-> "rule"]

\* add_list_to_doc: one paragraph per item.
ListBlocks(items, list_type) ==
    [k \in 1..Len(items) |->
        [kind |-> "list_item",
         style |-> IF list_type = "unordered" THEN "List Bullet" ELSE "List Number",
         indent |-> items[k][1], text |-> items[k][2]]]

\* add_blockquote: one paragraph per quoted line.
QuoteBlocks(quote_lines) ==
    [k \in 1..Len(quote_lines) |-> [kind |-> "quote", text |-> quote_lines[k]]]

\* s.split(c): the pieces between the occurrences of c, the empty ones kept.
RECURSIVE SplitOn(_, _)
SplitOn(s, c) ==
    LET n == LeadCount(s, {x \in {s[k] : k \in 1..Len(s)} : x # c})
    IN  IF n = Len(s) THEN <<s>>
        ELSE <<SubSeq(s, 1, n)>> \o SplitOn(Drop(s, n + 1), c)

\* _split_row: the cells of a row, the surrounding pipes trimmed.
SplitRow(line) ==
    LET cells == SplitOn(StripOf(Strip(line), {"|"}), "|")
    IN  [k \in 1..Len(cells) |-> Strip(cells[k])]

\* re.fullmatch(r":?-{3,}:?", c.strip())
IsSeparatorCell(c) ==
    LET s == Strip(c)
        a == IF s # <<>> /\ s[1] = ":" THEN 1 ELSE 0
        b == IF Len(s) > a /\ s[Len(s)] = ":" THEN 1 ELSE 0
        dashes == SubSeq(s, 1 + a, Len(s) - b)
    IN  Len(dashes) >= 3 /\ \A k \in 1..Len(dashes) : dashes[k] = "-"

\* _is_separator_row
IsSeparatorRow(cells) ==
    cells # <<>> /\ \A k \in 1..Len(cells) : IsSeparatorCell(cells[k])

\* _col_align
ColAlign(cell) ==
    LET s == Strip(cell)
    IN  IF StartsWith(s, <<":">>) /\ EndsWith(s, <<":">>) THEN "center"
        ELSE IF EndsWith(s, <<":">>) THEN "right"
        ELSE "left"

\* A row left as short as it is.
PadRow_Ragged(r, num_cols) == r

\* r + [""] * (num_cols - len(r))
PadRow(r, num_cols) == r \o Rep(num_cols - Len(r), <<>>)

\* The table with the separator row left among the body rows.
ParsedTable_KeepsSeparator(raw_rows) ==
    LET separated == Len(raw_rows) > 1 /\ IsSeparatorRow(raw_rows[2])
        header == raw_rows[1]
        body == Tail(raw_rows)
        lens == {Len(header)} \cup {Len(body[k]) : k \in 1..Len(body)}
        num_cols == CHOOSE n \in lens : \A x \in lens : x <= n
        aligns == IF separated THEN [k \in 1..Len(raw_rows[2]) |-> ColAlign(raw_rows[2][k])]
                  ELSE Rep(num_cols, ColAlign(<<>>))
    IN  [kind |-> "table", num_cols |-> num_cols,
         header |-> PadRow(header, num_cols),
         body |-> [k \in 1..Len(body) |-> PadRow(body[k], num_cols)],
         aligns |-> [ci \in 1..num_cols |-> IF ci <= Len(aligns) THEN aligns[ci] ELSE "left"]]

\* The table add_table builds from the rows: the header, the body, the number
\* of columns and the alignment given to the cells of each column.
ParsedTable(raw_rows) ==
    LET separated == Len(raw_rows) > 1 /\ IsSeparatorRow(raw_rows[2])
        header == raw_rows[1]
        body == IF separated THEN Drop(raw_rows, 2) ELSE Tail(raw_rows)
        lens == {Len(header)} \cup {Len(body[k]) : k \in 1..Len(body)}
        num_cols == CHOOSE n \in lens : \A x \in lens : x <= n
        aligns == IF separated THEN [k \in 1..Len(raw_rows[2]) |-> ColAlign(raw_rows[2][k])]
                  ELSE Rep(num_cols, ColAlign(<<>>))
    IN  [kind |-> "table", num_cols |-> num_cols,
         header |-> PadRow(header, num_cols),
         body |-> [k \in 1..Len(body) |-> PadRow(body[k], num_cols)],
         aligns |-> [ci \in 1..num_cols |-> IF ci <= Len(aligns) THEN aligns[ci] ELSE "left"]]

\* add_table: a run of fewer than two lines adds nothing.
TableBlocks(table_lines) ==
    LET pipe_lines == SelectSeq(table_lines, LAMBDA l : StartsWith(Strip(l), <<"|">>))
        raw_rows == [k \in 1..Len(pipe_lines) |-> SplitRow(pipe_lines[k])]
    IN  IF Len(table_lines) < 2 \/ raw_rows = <<>> THEN <<>>
        ELSE <<ParsedTable(raw_rows)>>

\* _add_display_equation: an empty equation adds nothing (the equation is a
\* Word equation, or a "latex" code block when the conversion is unavailable).
EquationBlocks(latex) ==
    IF Strip(latex) = <<>> THEN <<>>
    ELSE << [kind |-> "equation", latex |-> Strip(latex)] >>

(***************************************************************************)
(* Diagram sources: title directives, layout, caption                      *)
(***************************************************************************)

DQ == "\""

WordChars ==
    {UpperCase[k] : k \in 1..26} \cup {LowerCase[k] : k \in 1..26} \cup Digits \cup {"_"}

\* str(n), n >= 0
DigitChars == <<"0", "1", "2", "3", "4", "5", "6", "7", "8", "9">>
RECURSIVE Str(_)
Str(n) == IF n < 10 THEN <<DigitChars[n + 1]>> ELSE Str(n \div 10) \o <<DigitChars[(n % 10) + 1]>>

\* .replace("\r\n", "\n").replace("\r", "\n")
RECURSIVE NormalizeNewlines(_)
NormalizeNewlines(s) ==
    IF s = <<>> THEN <<>>
    ELSE IF s[1] = "\r"
    THEN <<"\n">> \o NormalizeNewlines(IF Len(s) >= 2 /\ s[2] = "\n" THEN Drop(s, 2) ELSE Tail(s))
    ELSE <<s[1]>> \o NormalizeNewlines(Tail(s))

\* _normalize_mermaid_text
NormalizeMermaidText(source) == Strip(NormalizeNewlines(source)) \o <<"\n">>

TitleWord == <<"t", "i", "t", "l", "e">>

\* Where the group of r"\s*:?\s+(.+)$" starts when the pattern is applied at
\* index p of the stripped line s (0 when it does not match): behind a colon
\* and its whitespace when there is one, else behind the whitespace.
TitleGroupStart(s, p) ==
    LET w == LeadCount(Drop(s, p - 1), Whitespace)
        c == p + w
        v == IF c <= Len(s) /\ s[c] = ":" THEN LeadCount(Drop(s, c), Whitespace) ELSE 0
    IN  IF v >= 1 /\ c + v + 1 <= Len(s) THEN c + v + 1
        ELSE IF w >= 1 /\ c <= Len(s) THEN c
        ELSE 0

\* re.match(r"^(?P<header>\S.*?)(?:\s+title\s*:?\s+)(?P<title>.+)$", line, re.IGNORECASE)
\* on a stripped line: the index of the word "title" of the match, 0 without one.
HeaderTitleAt(s) ==
    LET ok(q) == /\ s[q - 1] \in Whitespace
                 /\ q + 4 <= Len(s)
                 /\ Lower(SubSeq(s, q, q + 4)) = TitleWord
                 /\ TitleGroupStart(s, q + 5) # 0
        Q == {q \in 3..Len(s) : ok(q)}
    IN  IF Q = {} THEN 0 ELSE CHOOSE q \in Q : \A r \in Q : q <= r

\* The header group of that match.
HeaderOf(s, q) ==
    LET before == SubSeq(s, 1, q - 1)
    IN  SubSeq(before, 1, Len(before) - TrailCount(before, Whitespace))

\* re.match(r"^title\s*:?\s+(.+)$", line, re.IGNORECASE): the start of the
\* group, 0 without a match.
StandaloneTitleStart(s) ==
    IF Len(s) >= 5 /\ Lower(SubSeq(s, 1, 5)) = TitleWord THEN TitleGroupStart(s, 6) ELSE 0

\* .strip().strip('"').strip("'")
CleanTitle(g) == StripOf(StripOf(Strip(g), {DQ}), {"'"})

\* The loop of _extract_mermaid_title over the lines left.
RECURSIVE ExtractTitleFrom(_, _)
ExtractTitleFrom(lines, header_found) ==
    IF lines = <<>> THEN NoStr
    ELSE LET line == Strip(lines[1])
             rest == Tail(lines)
         IN  IF line = <<>> \/ StartsWith(line, <<"%", "%">>)
             THEN ExtractTitleFrom(rest, header_found)
             ELSE IF ~header_found
             THEN LET q == HeaderTitleAt(line)
                      title == IF q = 0 THEN <<>>
                               ELSE CleanTitle(Drop(line, TitleGroupStart(line, q + 5) - 1))
                  IN  IF title # <<>> THEN title ELSE ExtractTitleFrom(rest, TRUE)
             ELSE IF StandaloneTitleStart(line) # 0
             THEN LET g == Drop(line, StandaloneTitleStart(line) - 1)
                  IN  IF Len(g) >= 3 /\ g[1] = DQ /\ g[Len(g)] = DQ
                      THEN Strip(SubSeq(g, 2, Len(g) - 1))
                      ELSE CleanTitle(g)
             ELSE ExtractTitleFrom(rest, TRUE)

\* _extract_mermaid_title: the title of the diagram, NoStr without one.
ExtractMermaidTitle(source) ==
    ExtractTitleFrom(SplitLines(NormalizeMermaidText(source)), FALSE)

\* The loop of _strip_mermaid_title_for_render over the lines left: out.
RECURSIVE StripTitleLines(_, _, _, _)
StripTitleLines(lines, header_found, title_stripped, meaningful_after_header) ==
    IF lines = <<>> THEN <<>>
    ELSE LET line == lines[1]
             stripped == Strip(line)
             rest == Tail(lines)
         IN  IF stripped = <<>> \/ StartsWith(stripped, <<"%", "%">>)
             THEN <<line>> \o StripTitleLines(rest, header_found, title_stripped, meaningful_after_header)
             ELSE IF ~header_found
             THEN IF HeaderTitleAt(stripped) # 0
                  THEN <<HeaderOf(stripped, HeaderTitleAt(stripped))>>
                       \o StripTitleLines(rest, TRUE, TRUE, meaningful_after_header)
                  ELSE <<line>> \o StripTitleLines(rest, TRUE, title_stripped, meaningful_after_header)
             ELSE IF ~title_stripped /\ ~meaningful_after_header /\ StandaloneTitleStart(stripped) # 0
             THEN StripTitleLines(rest, header_found, TRUE, meaningful_after_header)
             ELSE <<line>> \o StripTitleLines(rest, header_found, title_stripped, TRUE)

\* _strip_mermaid_title_for_render (_prepare_mermaid_for_js is this alone).
StripMermaidTitleForRender(source) ==
    Strip(JoinLines(StripTitleLines(SplitLines(NormalizeMermaidText(source)), FALSE, FALSE, FALSE)))
    \o <<"\n">>

\* The length of the match of r"(graph|flowchart)\s+LR\b" at index p of s,
\* letter case ignored; 0 without a match. word is the keyword tried.
LayoutMatch(s, p, word) ==
    LET k == Len(word)
        w == LeadCount(Drop(s, p + k - 1), Whitespace)
        e == p + k + w + 1
    IN  IF /\ e <= Len(s)
           /\ Lower(SubSeq(s, p, p + k - 1)) = word
           /\ w >= 1
           /\ Lower(SubSeq(s, e - 1, e)) = <<"l", "r">>
           /\ (e = Len(s) \/ s[e + 1] \notin WordChars)
        THEN k + w + 2
        ELSE 0

\* re.sub(r"^(graph|flowchart)\s+LR\b", r"\1 TD", source, flags=re.MULTILINE | re.IGNORECASE),
\* from index p on.
RECURSIVE OptimizeLayoutFrom(_, _)
OptimizeLayoutFrom(s, p) ==
    IF p > Len(s) THEN <<>>
    ELSE LET graph == <<"g", "r", "a", "p", "h">>
             flowchart == <<"f", "l", "o", "w", "c", "h", "a", "r", "t">>
             word == IF LayoutMatch(s, p, graph) > 0 THEN graph ELSE flowchart
             n == LayoutMatch(s, p, word)
         IN  IF (p = 1 \/ s[p - 1] = "\n") /\ n > 0
             THEN SubSeq(s, p, p + Len(word) - 1) \o <<" ", "T", "D">> \o OptimizeLayoutFrom(s, p + n)
             ELSE <<s[p]>> \o OptimizeLayoutFrom(s, p + 1)

OptimizeLayout(source) == OptimizeLayoutFrom(source, 1)

\* seed = sha256(f"{counter}\n{source}")[:16], the hash taken as injective.
Seed(counter, source) == <<counter, source>>

Emit(st, blocks) == [st EXCEPT !.l.doc = @ \o blocks]

\* A caption that numbers the figure and leaves the title out.
AddMermaidCaption_Untitled(st, title) ==
    IF ~st.s.valves.MERMAID_CAPTIONS_ENABLE THEN st
    ELSE Emit([st EXCEPT !.s.mermaid_figure_counter = @ + 1],
              << [kind |-> "caption",
                  text |-> GetMsg(st.s.user_lang, "figure_prefix") \o <<" ">>
                           \o Str(st.s.mermaid_figure_counter + 1)] >>)

\* _add_mermaid_caption: the caption paragraph under a diagram; title is the
\* extracted title, NoStr without one.
AddMermaidCaption(st, title) ==
    IF ~st.s.valves.MERMAID_CAPTIONS_ENABLE THEN st
    ELSE LET configured == Strip(st.s.valves.MERMAID_CAPTION_PREFIX)
             prefix == IF configured = <<>> THEN GetMsg(st.s.user_lang, "figure_prefix")
                       ELSE configured
         IN  IF prefix = <<>> /\ ~Truthy(title) THEN st
             ELSE LET n == st.s.mermaid_figure_counter + 1
                      counted == [st EXCEPT !.s.mermaid_figure_counter = n]
                      base == prefix \o <<" ">> \o Str(n)
                      caption == IF prefix = <<>> THEN (IF Truthy(title) THEN title ELSE <<>>)
                                 ELSE IF Truthy(title) THEN base \o <<":", " ">> \o title
                                 ELSE base
                  IN  IF caption = <<>> THEN counted
                      ELSE Emit(counted, << [kind |-> "caption", text |-> caption] >>)

\* A placeholder that leaves the sequence counter alone.
InsertMermaidPlaceholder_Uncounted(st, mermaid_source) ==
    LET source_for_render == StripMermaidTitleForRender(mermaid_source)
        n == st.s.mermaid_placeholder_counter + 1
    IN  Emit(st, << [kind |-> "diagram", seq |-> n, source |-> source_for_render,
                     seed |-> Seed(n, source_for_render),
                     png |-> "stand-in", svg |-> "stand-in"] >>)

\* _insert_mermaid_placeholder: the stand-in picture (a placeholder PNG and a
\* dummy SVG part) annotated with the source to render, then the caption.
InsertMermaidPlaceholder(st, mermaid_source) ==
    LET caption_title == IF st.s.valves.MERMAID_CAPTIONS_ENABLE
                         THEN ExtractMermaidTitle(mermaid_source)
                         ELSE NoStr
        optimized == IF st.s.valves.MERMAID_OPTIMIZE_LAYOUT
                     THEN OptimizeLayout(mermaid_source)
                     ELSE mermaid_source
        source_for_render == StripMermaidTitleForRender(optimized)
        n == st.s.mermaid_placeholder_counter + 1
    IN  AddMermaidCaption(
            Emit([st EXCEPT !.s.mermaid_placeholder_counter = n],
                 << [kind |-> "diagram", seq |-> n, source |-> source_for_render,
                     seed |-> Seed(n, source_for_render),
                     png |-> "stand-in", svg |-> "stand-in"] >>),
            caption_title)

\* A flush that leaves the pending list open.
FlushList_Kept(st) == st

\* if in_list and list_items: add_list_to_doc(...); list_items = []; in_list = False
FlushList(st) ==
    IF st.l.in_list /\ st.l.list_items # <<>>
    THEN [Emit(st, ListBlocks(st.l.list_items, st.l.list_type))
            EXCEPT !.l.list_items = <<>>, !.l.in_list = FALSE]
    ELSE st

\* The flush of the two list branches, which leaves in_list to the caller.
FlushItems(st) ==
    IF st.l.in_list /\ st.l.list_items # <<>>
    THEN [Emit(st, ListBlocks(st.l.list_items, st.l.list_type)) EXCEPT !.l.list_items = <<>>]
    ELSE st

Advance(st, n, handler) == [st EXCEPT !.l.i = @ + n, !.l.last = handler]

\* A look-ahead that leaves the line that triggered it unconsumed.
TableRun_Peek(lines, i) == 0

\* while i < len(lines) and lines[i].strip().startswith("|"): the run's length.
RECURSIVE TableRun(_, _)
TableRun(lines, i) ==
    IF i <= Len(lines) /\ IsTableLine(lines[i]) THEN 1 + TableRun(lines, i + 1) ELSE 0

\* while i < len(lines) and lines[i].strip().startswith(">"): the run's length.
RECURSIVE QuoteRun(_, _)
QuoteRun(lines, i) ==
    IF i <= Len(lines) /\ IsQuoteLine(lines[i]) THEN 1 + QuoteRun(lines, i + 1) ELSE 0

\* The locals of markdown_to_docx before the line loop (i counts from 1).
NewLocals(lines) ==
    [lines |-> lines, i |-> 1,
     in_code_block |-> FALSE, code_block_content |-> <<>>, code_block_lang |-> <<>>,
     in_math_block |-> FALSE, math_block_delim |-> <<>>, math_block_lines |-> <<>>,
     in_list |-> FALSE, list_items |-> <<>>, list_type |-> None,
     doc |-> <<>>, last |-> None]

\* self._citation_anchor_by_index[ref.idx] = ref.anchor
AnchorByIndex(refs) ==
    [idx \in {refs[k].idx : k \in 1..Len(refs)} |->
        (CHOOSE r \in {refs[k] : k \in 1..Len(refs)} : r.idx = idx).anchor]

\* markdown_to_docx up to the line loop: the scratch state of the handler is
\* reset, the title heading is added. docs are the documents of sources in
\* scan order (each with its group's source object), id names the Document.
ConvBegin(handler, id, docs, top_heading, has_h1, lines) ==
    LET refs == BuildCitationRefs(docs)
        st == [l |-> NewLocals(lines),
               s |-> [handler EXCEPT
                        !.active_doc = id,
                        !.mermaid_figure_counter = 0,
                        !.mermaid_placeholder_counter = 0,
                        !.citation_anchor_by_index = AnchorByIndex(refs),
                        !.citation_refs = refs,
                        !.bookmark_id_counter = 1]]
    IN  IF top_heading # <<>> /\ ~has_h1
        THEN Emit(st, <<HeadingBlock(top_heading, 1)>>)
        ELSE st

\* The display-math part of one iteration (lines 1347-1382); st unchanged
\* when the line is left to the later handlers.
MathStep(st) ==
    LET l == st.l
        line == l.lines[l.i]
        single == ExtractSingleLineMath(line)
        stripped == Strip(line)
    IN  IF single # NoStr
        THEN Advance(Emit(FlushList(st), EquationBlocks(single)), 1, "math_single")
        ELSE IF ~l.in_math_block
        THEN IF stripped \in MathOpeners
             THEN Advance([FlushList(st) EXCEPT
                              !.l.in_math_block = TRUE,
                              !.l.math_block_delim = stripped,
                              !.l.math_block_lines = <<>>], 1, "math_open")
             ELSE st
        ELSE IF stripped = MathCloser(l.math_block_delim)
        THEN Advance([Emit(st, EquationBlocks(JoinLines(l.math_block_lines))) EXCEPT
                         !.l.in_math_block = FALSE,
                         !.l.math_block_delim = <<>>,
                         !.l.math_block_lines = <<>>], 1, "math_close")
        ELSE Advance([st EXCEPT !.l.math_block_lines = Append(@, line)], 1, "math_body")

\* The code-fence part of one iteration (lines 1384-1414); st unchanged when
\* the line is left to the later handlers.
FenceStep(st) ==
    LET l == st.l
        line == l.lines[l.i]
    IN  IF IsFenceLine(line)
        THEN IF ~l.in_code_block
             THEN Advance([FlushList(st) EXCEPT
                              !.l.in_code_block = TRUE,
                              !.l.code_block_lang = FenceLang(line),
                              !.l.code_block_content = <<>>], 1, "fence_open")
             ELSE LET closed == [st EXCEPT !.l.in_code_block = FALSE,
                                           !.l.code_block_content = <<>>,
                                           !.l.code_block_lang = <<>>]
                  IN  Advance(IF Lower(l.code_block_lang) = <<"m", "e", "r", "m", "a", "i", "d">>
                              THEN InsertMermaidPlaceholder(closed, JoinLines(l.code_block_content))
                              ELSE Emit(closed, <<CodeBlock(l.code_block_content, l.code_block_lang)>>),
                              1, "fence_close")
        ELSE IF l.in_code_block
        THEN Advance([st EXCEPT !.l.code_block_content = Append(@, line)], 1, "fence_body")
        ELSE st

\* The rest of one iteration (lines 1415-1508): table run, heading, list
\* items, blockquote run, rule, blank line, paragraph.
BlockStep(st) ==
    LET l == st.l
        line == l.lines[l.i]
    IN  IF IsTableStart(line)
        THEN LET n == TableRun(l.lines, l.i)
             IN  Advance(Emit(FlushList(st), TableBlocks(SubSeq(l.lines, l.i, l.i + n - 1))), n, "table")
        ELSE IF HeadingLevel(line) > 0
        THEN Advance(Emit(FlushList(st), <<HeadingBlock(HeadingText(line), HeadingLevel(line))>>),
                     1, "heading")
        ELSE IF UnorderedMatch(line) # <<>>
        THEN LET f == IF ~l.in_list \/ l.list_type # "unordered"
                      THEN [FlushItems(st) EXCEPT !.l.in_list = TRUE, !.l.list_type = "unordered"]
                      ELSE st
             IN  Advance([f EXCEPT !.l.list_items = Append(@, UnorderedMatch(line))], 1, "ulist")
        ELSE IF OrderedMatch(line) # <<>>
        THEN LET f == IF ~l.in_list \/ l.list_type # "ordered"
                      THEN [FlushItems(st) EXCEPT !.l.in_list = TRUE, !.l.list_type = "ordered"]
                      ELSE st
             IN  Advance([f EXCEPT !.l.list_items = Append(@, OrderedMatch(line))], 1, "olist")
        ELSE IF IsQuoteLine(line)
        THEN LET n == QuoteRun(l.lines, l.i)
             IN  Advance(Emit(FlushList(st),
                              QuoteBlocks([k \in 1..n |-> QuoteText(l.lines[l.i + k - 1])])),
                         n, "quote")
        ELSE IF IsRule(line)
        THEN Advance(Emit(FlushList(st), <<RuleBlock>>), 1, "rule")
        ELSE IF Strip(line) = <<>>
        THEN Advance(FlushList(st), 1, "blank")
        ELSE Advance(Emit(FlushList(st), <<ParagraphBlock(line)>>), 1, "paragraph")

\* An iteration that tries the code fence before display math.
LineStep_FenceFirst(st) ==
    LET f == FenceStep(st)
    IN  IF f.l.i # st.l.i THEN f
        ELSE LET m == IF st.s.valves.MATH_ENABLE THEN MathStep(st) ELSE st
             IN  IF m.l.i # st.l.i THEN m ELSE BlockStep(st)

\* One iteration of the line loop, after its progress notification.
LineStep(st) ==
    LET m == IF ~st.l.in_code_block /\ st.s.valves.MATH_ENABLE THEN MathStep(st) ELSE st
    IN  IF m.l.i # st.l.i THEN m
        ELSE LET f == FenceStep(st)
             IN  IF f.l.i # st.l.i THEN f ELSE BlockStep(st)

\* _add_references_section: the heading, then one bookmarked entry per reference.
ReferencesSection(st) ==
    LET refs == st.s.citation_refs
        b == st.s.bookmark_id_counter
    IN  Emit([st EXCEPT !.s.bookmark_id_counter = @ + Len(refs)],
             <<HeadingBlock(GetMsg(st.s.user_lang, "references"), 2)>>
             \o [k \in 1..Len(refs) |->
                    [kind |-> "reference", bookmark_id |-> b + k - 1, anchor |-> refs[k].anchor,
                     title |-> refs[k].title, url |-> refs[k].url]])

\* What follows an unclosed math block at the end of the input.
UnclosedMath(st) ==
    IF st.l.in_math_block /\ st.l.math_block_lines # <<>>
    THEN Emit(st, <<ParagraphBlock(<<BSL, "[">>)>>
                  \o [k \in 1..Len(st.l.math_block_lines) |-> ParagraphBlock(st.l.math_block_lines[k])]
                  \o <<ParagraphBlock(<<BSL, "]">>)>>)
    ELSE st

\* markdown_to_docx after the line loop (lines 1509-1522): the pending list,
\* the unclosed math block, the references; finally the handle is dropped.
ConvFinish(st) ==
    LET a == IF st.l.in_list /\ st.l.list_items # <<>>
             THEN Emit(st, ListBlocks(st.l.list_items, st.l.list_type))
             ELSE st
        b == UnclosedMath(a)
        c == IF b.s.citation_refs # <<>> THEN ReferencesSection(b) ELSE b
    IN  [c EXCEPT !.s.active_doc = 0]

\* The line loop run to its end without a suspension.
RECURSIVE RunLines(_)
RunLines(st) == IF st.l.i > Len(st.l.lines) THEN st ELSE RunLines(LineStep(st))

\* markdown_to_docx as a function, when no emitter suspends it: the state it
\* returns with (its document is .l.doc).
MarkdownToDocx(handler, id, docs, top_heading, has_h1, lines) ==
    ConvFinish(RunLines(ConvBegin(handler, id, docs, top_heading, has_h1, lines)))

\* The configurations a conversion is assembled under.
AsmValves ==
    { DefaultValves,
      [DefaultValves EXCEPT !.MATH_ENABLE = FALSE],
      [DefaultValves EXCEPT !.MERMAID_CAPTIONS_ENABLE = FALSE],
      [DefaultValves EXCEPT !.MERMAID_CAPTION_PREFIX = <<"F", "i", "g", ".", " ">>,
                            !.MERMAID_OPTIMIZE_LAYOUT = TRUE],
      [DefaultValves EXCEPT !.UI_LANGUAGE = "zh-CN"] }

\* The documents of the sources a conversion is given: none, or one.
AsmSources ==
    { <<>>,
      << <<[source |-> <<"s", "1">>, title |-> <<"T", "1">>, name |-> NoStr, url |-> NoStr],
           [dict |-> TRUE, id |-> NoStr, name |-> NoStr, urls |-> <<>>]>> >> }

\* Transcripts with diagrams: two with the same source; three with a title in
\* the header line, in a title line, and without one; one laid out left to
\* right; one titled behind its content.
FenceClose == <<BQ, BQ, BQ>>
FenceMermaid == <<BQ, BQ, BQ, "m", "e", "r", "m", "a", "i", "d">>
TwoDiagrams ==
    <<FenceMermaid, <<"x">>, FenceClose, FenceMermaid, <<"x">>, FenceClose>>
TitledDiagrams ==
    <<FenceMermaid, <<"g", " ", "t", "i", "t", "l", "e", " ", "T">>, FenceClose,
      <<"-", " ", "a">>,
      FenceMermaid, <<"g">>, <<"t", "i", "t", "l", "e", ":", " ", DQ, "U", DQ>>, FenceClose,
      FenceMermaid, <<"g">>, FenceClose>>
LayoutDiagram ==
    <<FenceMermaid, <<"g", "r", "a", "p", "h", " ", "L", "R">>, <<"a">>, FenceClose>>
\* A diagram whose title line stands behind a line of its content.
LateTitleDiagram ==
    <<FenceMermaid, <<"g">>, <<"a">>, <<"t", "i", "t", "l", "e", " ", "V">>, FenceClose>>
DiagramSamples == {TwoDiagrams, TitledDiagrams, LayoutDiagram, LateTitleDiagram}

\* Transcripts with a table: with a separator row of two alignments; without
\* one, the rows of different lengths; with a separator shorter than the
\* header; with dashes too few for a separator; with a separator-like third
\* row; with a separator longer than the header and the body rows.
TableSamples ==
    { << <<"|", " ", "a", " ", "|", " ", "b", " ", "|">>,
         <<"|", "-", "-", "-", ":", "|", ":", "-", "-", "-", ":", "|">>,
         <<"|", " ", "1", " ", "|", " ", "2", " ", "|">> >>,
      << <<"|", " ", "a", " ", "|", " ", "b", " ", "|">>,
         <<"|", " ", "1", " ", "|", " ", "2", " ", "|">>,
         <<"|", "3", "|">> >>,
      << <<"|", "a", "|", "b", "|", "c", "|">>,
         <<" ", "|", ":", "-", "-", "-", "-", " ", "|", "-", "-", "-", "|">>,
         <<"|", "1", "|", "|", "3">>,
         <<"x">> >>,
      << <<"|", "a", "|", "b", "|">>,
         <<"|", "-", "-", "|", "-", "-", "-", "|">>,
         <<"|", "1", "|">> >>,
      << <<"|", "a", "|">>,
         <<"|", "1", "|">>,
         <<"|", "-", "-", "-", ":", "|">> >>,
      << <<"|", "a", "|">>,
         <<"|", "-", "-", "-", "|", "-", "-", "-", "|">>,
         <<"|", "1", "|">> >> }

\* Transcripts of lines that look like several kinds of block: stars apart
\* (a list item of the item "* *", no rule), a numbered item of a dash, a
\* quoted heading, and a fence holding a table row and a heading.
DispatchSamples ==
    { << <<"*", " ", "*", " ", "*">>, <<"1", ".", " ", "-", " ", "a">>, <<">", "#", " ", "q">> >>,
      << FenceClose, <<"|", "a", "|">>, <<"#", " ", "H">>, FenceClose >> }

\* The handler as action() leaves it before the conversion: the configuration
\* and the language of its messages.
HandlerFor(valves) ==
    [NewHandler EXCEPT !.valves = valves, !.user_lang = GetLangKey(valves.UI_LANGUAGE)]

\* The inputs of markdown_to_docx: every transcript of up to MaxLines lines
\* under the default configuration without sources, the shorter ones and the
\* diagram samples under every configuration and with sources.
AsmInputs ==
    {[lines |-> ls, valves |-> DefaultValves, docs |-> <<>>] :
        ls \in SeqsOf(LineAlphabet, 1, MaxLines)}
    \cup {[lines |-> ls, valves |-> v, docs |-> d] :
        ls \in SeqsOf(LineAlphabet, 1, MaxLines - 1) \cup DiagramSamples \cup TableSamples
              \cup DispatchSamples,
        v \in AsmValves, d \in AsmSources}

AsmInit ==
    \E in \in AsmInputs :
        asm = [pc |-> "loop", input |-> in,
               st |-> ConvBegin(HandlerFor(in.valves), 1, in.docs,
                                <<>>, FALSE, in.lines)]

\* One iteration of while i < len(lines), no emitter given.
AsmLine ==
    /\ asm.pc = "loop"
    /\ asm.st.l.i <= Len(asm.st.l.lines)
    /\ asm' = [asm EXCEPT !.st = LineStep(asm.st)]

\* The loop has ended: the rest of markdown_to_docx.
AsmFinish ==
    /\ asm.pc = "loop"
    /\ asm.st.l.i > Len(asm.st.l.lines)
    /\ asm' = [asm EXCEPT !.pc = "done", !.st = ConvFinish(asm.st)]

AsmNext == AsmLine \/ AsmFinish

(***************************************************************************)
(* Action handler: Action.action, invocations sharing one handler object   *)
(***************************************************************************)

\* The invocations that may overlap on the handler.
Tasks == {1, 2}

\* re.sub(r"\n{4,}", "\n\n\n", cur)
RECURSIVE CollapseNewlines(_)
CollapseNewlines(text) ==
    IF text = <<>> THEN <<>>
    ELSE LET n == LeadCount(text, {"\n"})
         IN  IF n >= 4 THEN <<"\n", "\n", "\n">> \o CollapseNewlines(Drop(text, n))
             ELSE IF n >= 1 THEN SubSeq(text, 1, n) \o CollapseNewlines(Drop(text, n))
             ELSE <<text[1]>> \o CollapseNewlines(Tail(text))

\* _strip_reasoning_blocks on a content without reasoning markup (the
\* contents of the model hold no "<"): the blank-line clean-up remains.
StripReasoningBlocks(lines) == SplitLines(CollapseNewlines(JoinLines(lines)))

\* not message_content or not message_content.strip()
NoContent(lines) == \A k \in 1..Len(lines) : Strip(lines[k]) = <<>>

\* extract_title: the text of the first h1/h2 heading, else empty.
RECURSIVE ExtractTitle(_)
ExtractTitle(lines) ==
    IF lines = <<>> THEN <<>>
    ELSE IF HeadingLevel(lines[1]) \in {1, 2} THEN Strip(HeadingText(lines[1]))
    ELSE ExtractTitle(Tail(lines))

\* The title of the export (lines 447-465), TITLE_SOURCE being "chat_title"
\* or "markdown_title".
Title(title_source, chat_title, lines) ==
    LET first == IF title_source = "chat_title" THEN chat_title ELSE ExtractTitle(lines)
    IN  IF first # <<>> THEN first
        ELSE IF title_source # "chat_title" /\ chat_title # <<>> THEN chat_title
        ELSE IF title_source # "markdown_title" THEN ExtractTitle(lines)
        ELSE <<>>

\* top_heading (lines 477-481)
TopHeading(title_source, chat_title, lines) ==
    IF chat_title # <<>> THEN chat_title ELSE Title(title_source, chat_title, lines)

\* re.search(r"^#\s+.+$", message_content, re.MULTILINE), on lines that are
\* not a bare "#".
HasH1(lines) ==
    \E k \in 1..Len(lines) :
        /\ lines[k] # <<>>
        /\ lines[k][1] = "#"
        /\ ItemText(Tail(lines[k])) # NoStr

\* __user__ without "valves".
NoUserValves == [given |-> FALSE, TITLE_SOURCE |-> "", UI_LANGUAGE |-> ""]

\* for key, value in __user__["valves"].model_dump().items(): setattr(self.valves, key, value)
ApplyUserValves(valves, user_valves) ==
    IF user_valves.given
    THEN [valves EXCEPT !.TITLE_SOURCE = user_valves.TITLE_SOURCE,
                        !.UI_LANGUAGE = user_valves.UI_LANGUAGE]
    ELSE valves

\* The events handed to __event_emitter__.
StatusEvent(description, done, progress) ==
    [type |-> "status", description |-> description, done |-> done,
     ntype |-> None, progress |-> progress]
NotificationEvent(content, ntype) ==
    [type |-> "notification", description |-> content, done |-> FALSE,
     ntype |-> ntype, progress |-> 0]

\* doc.save(...) and base64.b64encode(...): the package handed to
\* __event_call__ inside the executed script.
Package(doc) == [type |-> "execute", blob |-> doc]

\* The scratch state the handler keeps for a conversion.
Scratch(handler) ==
    [mermaid_figure_counter |-> handler.mermaid_figure_counter,
     mermaid_placeholder_counter |-> handler.mermaid_placeholder_counter,
     citation_anchor_by_index |-> handler.citation_anchor_by_index,
     citation_refs |-> handler.citation_refs,
     bookmark_id_counter |-> handler.bookmark_id_counter,
     active_doc |-> handler.active_doc]

\* An invocation that has not been made yet.
IdleTask ==
    [pc |-> "idle",
     input |-> [emitter |-> FALSE, event_call |-> FALSE, valves |-> NoUserValves,
                content |-> <<>>, chat_title |-> <<>>, sources |-> <<>>, raises |-> FALSE],
     events |-> <<>>, l |-> NewLocals(<<>>), scratch |-> Scratch(NewHandler),
     doc |-> <<>>, handed |-> <<>>, result |-> None]

\* The message contents of the model: two diagrams (TwoDiagrams), a titled
\* note, and the empty message.
TitledNote == <<<<"#", " ", "H">>, <<"x">>>>

\* The per-user overrides of the model.
UserValvesGiven == [given |-> TRUE, TITLE_SOURCE |-> "markdown_title", UI_LANGUAGE |-> "zh-CN"]

\* The invocations of the model: the usual one (emitter and script channel
\* given, no overrides, no failure), and the ones that differ from it in the
\* content, in a channel, in the overrides or by a failing save.
UsualInput ==
    [emitter |-> TRUE, event_call |-> TRUE, valves |-> NoUserValves,
     content |-> TwoDiagrams, chat_title |-> <<"T">>,
     sources |-> CHOOSE d \in AsmSources : d # <<>>, raises |-> FALSE]
ActionInputs ==
    { UsualInput,
      [UsualInput EXCEPT !.content = <<<<>>>>],
      [UsualInput EXCEPT !.content = TitledNote, !.chat_title = <<>>, !.sources = <<>>],
      [UsualInput EXCEPT !.emitter = FALSE],
      [UsualInput EXCEPT !.event_call = FALSE],
      [UsualInput EXCEPT !.valves = UserValvesGiven],
      [UsualInput EXCEPT !.raises = TRUE] }

\* The progress notifications one conversion is followed through.
MaxProgress == 1

\* The progress notifications of an invocation so far.
ProgressCount(t) ==
    Cardinality({k \in 1..Len(task[t].events) :
                    task[t].events[k].type = "status" /\ ~task[t].events[k].done}) - 1

\* The handler as the administrator configured it: SHOW_STATUS on (the
\* default) or off, every other valve at its default.
HandlerInit ==
    /\ \E show \in BOOLEAN : self = [NewHandler EXCEPT !.valves.SHOW_STATUS = show]
    /\ task = [t \in Tasks |-> IdleTask]

\* action() up to its first await (the invocations are numbered in the order
\* they are made): the overrides are written into the shared
\* valves, the language is set, and without an emitter nothing else is done.
Invoke(t, in) ==
    /\ task[t].pc = "idle"
    /\ \A u \in Tasks : u < t => task[u].pc # "idle"
    /\ LET valves == ApplyUserValves(self.valves, in.valves)
           lang == GetLangKey(valves.UI_LANGUAGE)
       IN  /\ self' = [self EXCEPT !.valves = valves, !.user_lang = lang]
           /\ task' = [task EXCEPT ![t] =
                 IF in.emitter
                 THEN [@ EXCEPT !.input = in, !.pc = "await_start",
                                !.events = <<StatusEvent(GetMsg(lang, "converting"), FALSE, 0)>>]
                 ELSE [@ EXCEPT !.input = in, !.pc = "returned"]]

\* After the start status: an empty message is reported and the run ends,
\* any other has its chat title fetched.
AfterStart(t) ==
    /\ task[t].pc = "await_start"
    /\ task' = [task EXCEPT ![t] =
          IF NoContent(StripReasoningBlocks(task[t].input.content))
          THEN [@ EXCEPT !.pc = "await_no_content",
                         !.events = Append(@, NotificationEvent(GetMsg(self.user_lang, "error_no_content"), "error"))]
          ELSE [@ EXCEPT !.pc = "await_title"]]
    /\ UNCHANGED self

\* return, after the notification of the empty message.
NoContentReturn(t) ==
    /\ task[t].pc = "await_no_content"
    /\ task' = [task EXCEPT ![t].pc = "returned"]
    /\ UNCHANGED self

\* The line loop from st up to the iteration stop, where the progress
\* notification suspends it, or to the end of the lines.
RECURSIVE RunUntil(_, _)
RunUntil(st, stop) ==
    IF st.l.i > Len(st.l.lines) \/ st.l.i >= stop THEN st
    ELSE RunUntil(LineStep(st), stop)

\* markdown_to_docx from st until its next await or its return, and what
\* action() does with the document up to its next await.
ConvSegment(t, st0) ==
    \E stop \in (st0.l.i + 1)..(Len(st0.l.lines) + 1) :
        \E st \in {RunUntil(st0, stop)} :
            IF st.l.i <= Len(st.l.lines)
            THEN \* await event_emitter(progress)
                 /\ ProgressCount(t) < MaxProgress
                 /\ self' = st.s
                 /\ task' = [task EXCEPT ![t] = [@ EXCEPT
                       !.pc = "await_progress", !.l = st.l, !.scratch = Scratch(st.s),
                       !.events = Append(@, StatusEvent(GetMsg(st.s.user_lang, "converting"), FALSE,
                                                        ((st.l.i - 1) * 100) \div Len(st.l.lines)))]]
            ELSE LET fin == ConvFinish(st)
                     done == [task[t] EXCEPT !.l = fin.l, !.doc = fin.l.doc]
                 IN  /\ self' = fin.s
                     /\ task' = [task EXCEPT ![t] =
                           IF task[t].input.raises
                           THEN [done EXCEPT !.pc = "await_failed_status",
                                    !.events = Append(@, StatusEvent(GetMsg(fin.s.user_lang, "export_failed"), TRUE, 0))]
                           ELSE IF task[t].input.event_call
                           THEN [done EXCEPT !.pc = "await_call", !.handed = <<Package(fin.l.doc)>>]
                           ELSE [done EXCEPT !.pc = "await_exported_status",
                                    !.events = Append(@, StatusEvent(GetMsg(fin.s.user_lang, "exported"), TRUE, 0))]]

\* After fetch_chat_title: the title, the top heading, and markdown_to_docx
\* from its start.
AfterTitle(t) ==
    /\ task[t].pc = "await_title"
    /\ LET in == task[t].input
           content == StripReasoningBlocks(in.content)
       IN  ConvSegment(t, ConvBegin(self, t, in.sources,
                                    TopHeading(self.valves.TITLE_SOURCE, in.chat_title, content),
                                    HasH1(content), content))

\* After a progress notification: markdown_to_docx goes on.
AfterProgress(t) ==
    /\ task[t].pc = "await_progress"
    /\ ConvSegment(t, [l |-> task[t].l, s |-> self])

\* After the script was handed to __event_call__: the final status.
AfterCall(t) ==
    /\ task[t].pc = "await_call"
    /\ task' = [task EXCEPT ![t] = [@ EXCEPT !.pc = "await_exported_status",
          !.events = Append(@, StatusEvent(GetMsg(self.user_lang, "exported"), TRUE, 0))]]
    /\ UNCHANGED self

\* After the final status: the success notification.
AfterExportedStatus(t) ==
    /\ task[t].pc = "await_exported_status"
    /\ task' = [task EXCEPT ![t] = [@ EXCEPT !.pc = "await_success",
          !.events = Append(@, NotificationEvent(GetMsg(self.user_lang, "success"), "success"))]]
    /\ UNCHANGED self

\* return {"message": "Download triggered"}
SuccessReturn(t) ==
    /\ task[t].pc = "await_success"
    /\ task' = [task EXCEPT ![t] = [@ EXCEPT !.pc = "returned", !.result = "Download triggered"]]
    /\ UNCHANGED self

\* except Exception, after the failure status: the error notification.
AfterFailedStatus(t) ==
    /\ task[t].pc = "await_failed_status"
    /\ task' = [task EXCEPT ![t] = [@ EXCEPT !.pc = "await_error",
          !.events = Append(@, NotificationEvent(GetMsg(self.user_lang, "error_export"), "error"))]]
    /\ UNCHANGED self

\* The end of the except branch.
FailedReturn(t) ==
    /\ task[t].pc = "await_error"
    /\ task' = [task EXCEPT ![t].pc = "returned"]
    /\ UNCHANGED self

HandlerNext ==
    \E t \in Tasks :
        \/ \E in \in ActionInputs : Invoke(t, in)
        \/ AfterStart(t)
        \/ NoContentReturn(t)
        \/ AfterTitle(t)
        \/ AfterProgress(t)
        \/ AfterCall(t)
        \/ AfterExportedStatus(t)
        \/ SuccessReturn(t)
        \/ AfterFailedStatus(t)
        \/ FailedReturn(t)

(***************************************************************************)
(* Deferred rendering: the script handed to __event_call__                 *)
(***************************************************************************)

\* The diagrams of the packages the script is followed on.
MaxDiagrams == 3

\* A message with n diagrams.
RECURSIVE DiagramLines(_)
DiagramLines(n) ==
    IF n = 0 THEN <<<<"x">>>>
    ELSE DiagramLines(n - 1) \o <<FenceMermaid, <<"x">>, <<BQ, BQ, BQ>>>>

\* The positions of the drawings whose descr starts with "MERMAID_SRC:".
RECURSIVE Placeholders(_, _)
Placeholders(doc, k) ==
    IF k > Len(doc) THEN <<>>
    ELSE IF doc[k].kind = "diagram" THEN <<k>> \o Placeholders(doc, k + 1)
    ELSE Placeholders(doc, k + 1)

\* downloadBlob(blob, filename)
DownloadBlob(r, blob) == [r EXCEPT !.delivered = Append(@, blob)]

\* The package after Phase 3 and the PNG writes: a diagram whose render
\* succeeded has its SVG part and extents updated, and its PNG when the
\* conversion succeeded too; every other part stays.
Patched(doc, placeholders, results, pngs) ==
    [k \in 1..Len(doc) |->
        IF \E j \in 1..Len(placeholders) : placeholders[j] = k /\ results[j]
        THEN LET j == CHOOSE j \in 1..Len(placeholders) : placeholders[j] = k
             IN  [doc[k] EXCEPT !.svg = "rendered",
                                !.png = IF pngs[j] THEN "rendered" ELSE @]
        ELSE doc[k]]

RenderParked ==
    [pc |-> "parked", bytes |-> <<>>, placeholders |-> <<>>, thrown |-> {},
     results |-> <<>>, pngs |-> <<>>, delivered |-> <<>>]

\* The script starts with the package of a converted message.
RenderInit ==
    \E n \in 0..MaxDiagrams :
        rd = [RenderParked EXCEPT
                !.pc = "load",
                !.bytes = MarkdownToDocx(NewHandler, 1, <<>>, <<"T">>, FALSE, DiagramLines(n)).l.doc]

\* await loadScript(jszipUrl), await loadScript(mermaidUrl): a script that
\* does not load rejects, which the outer catch takes.
LoadScripts ==
    /\ rd.pc = "load"
    /\ \/ rd' = [rd EXCEPT !.pc = "setup"]
       \/ rd' = [rd EXCEPT !.pc = "catch", !.thrown = @ \cup {"load"}]

\* window.mermaid.initialize(...) in a try of its own: a failure is ignored.
InitializeMermaid ==
    /\ rd.pc = "setup"
    /\ \/ rd' = [rd EXCEPT !.pc = "unpack"]
       \/ rd' = [rd EXCEPT !.pc = "unpack", !.thrown = @ \cup {"setup"}]

\* Decoding, zip.loadAsync, the two XML parts, the placeholders; with no
\* placeholder the original bytes are downloaded and the script returns.
Unpack ==
    /\ rd.pc = "unpack"
    /\ \/ LET found == Placeholders(rd.bytes, 1)
          IN  rd' = IF found = <<>>
                    THEN [DownloadBlob(rd, rd.bytes) EXCEPT !.pc = "done"]
                    ELSE [rd EXCEPT !.pc = "render", !.placeholders = found]
       \/ rd' = [rd EXCEPT !.pc = "catch", !.thrown = @ \cup {"unpack"}]

\* Phase 1, one diagram: mermaid.render in a try of its own, a failure gives
\* success: false.
RenderDiagram ==
    /\ rd.pc = "render"
    /\ \E success \in BOOLEAN :
          LET results == Append(rd.results, success)
          IN  rd' = [rd EXCEPT !.results = results,
                               !.pc = IF Len(results) = Len(rd.placeholders) THEN "png" ELSE "render"]

\* Phase 2: the PNG conversions, each null when the render failed or the
\* conversion throws.
ConvertPngs ==
    /\ rd.pc = "png"
    /\ \E pngs \in [1..Len(rd.results) -> BOOLEAN] :
          /\ \A j \in 1..Len(rd.results) : pngs[j] => rd.results[j]
          /\ rd' = [rd EXCEPT !.pngs = pngs, !.pc = "repackage"]

\* Phase 3, the PNG writes, the serialization and zip.generateAsync, then
\* the download of the new package; a throw goes to the outer catch.
Repackage ==
    /\ rd.pc = "repackage"
    /\ \/ rd' = [DownloadBlob(rd, Patched(rd.bytes, rd.placeholders, rd.results, rd.pngs))
                    EXCEPT !.pc = "done"]
       \/ rd' = [rd EXCEPT !.pc = "catch", !.thrown = @ \cup {"repackage"}]

\* The script without its catch-all download.
CatchAll_Silent ==
    /\ rd.pc = "catch"
    /\ rd' = [rd EXCEPT !.pc = "done"]

\* catch (error): the original bytes are downloaded.
CatchAll ==
    /\ rd.pc = "catch"
    /\ rd' = [DownloadBlob(rd, rd.bytes) EXCEPT !.pc = "done"]

RenderNext ==
    \/ LoadScripts
    \/ InitializeMermaid
    \/ Unpack
    \/ RenderDiagram
    \/ ConvertPngs
    \/ Repackage
    \/ CatchAll

(***************************************************************************)
(* Inline span resolver: Action._add_inline_segments                       *)
(***************************************************************************)

Letters == {UpperCase[k] : k \in 1..Len(UpperCase)} \cup {LowerCase[k] : k \in 1..Len(LowerCase)}

\* str.isalnum(), str.isspace() and str.isdigit() of one character.
IsAlnum(c) == c \in Letters \cup Digits
IsSpace(c) == c \in Whitespace
IsDigit(c) == c \in Digits

\* text.startswith(pat, p), positions counted from 1.
StartsAt(text, pat, p) ==
    /\ p >= 1
    /\ p + Len(pat) - 1 <= Len(text)
    /\ SubSeq(text, p, p + Len(pat) - 1) = pat

\* text.find(pat, from), positions counted from 1; 0 when there is none.
Find(text, pat, from) ==
    LET found == {p \in from..Len(text) : StartsAt(text, pat, p)}
    IN  IF found = {} THEN 0 ELSE CHOOSE p \in found : \A q \in found : p <= q

\* next_special(start): the next position a span may start at, else past
\* the end.
NextSpecial(text, start) ==
    LET pats == {<<BQ>>, <<"!">>, <<"[">>, <<"*">>, <<"_">>, <<"~">>, <<"$">>, <<BSL>>,
                 <<BSL, "(">>,
                 <<"h", "t", "t", "p", ":", "/", "/">>,
                 <<"h", "t", "t", "p", "s", ":", "/", "/">>,
                 <<"w", "w", "w", ".">>}
        candidates == {Find(text, pat, start) : pat \in pats} \ {0}
    IN  IF candidates = {} THEN Len(text) + 1
        ELSE CHOOSE p \in candidates : \A q \in candidates : p <= q

\* The characters a backslash escapes.
EscapeSet == {BSL, BQ, "*", "_", "{", "}", "[", "]", "(", ")", "#", "+", "-", ".", "!", "|", "$"}

TrailingPunctuation == {".", ",", ";", ":", "!", "?", ")", "]", "}"}

\* _CURRENCY_NUMBER_RE: ^\d[\d,]*(?:\.\d+)?$
IsCurrencyNumber(s) ==
    /\ s # <<>>
    /\ IsDigit(s[1])
    /\ LET d == LeadCount(s, Digits \cup {","})
       IN  \/ d = Len(s)
           \/ /\ s[d + 1] = "."
              /\ Len(s) > d + 1
              /\ \A k \in (d + 2)..Len(s) : IsDigit(s[k])

\* The length of the longest prefix matching [^\s<>()]*.
RECURSIVE UrlRunLength(_)
UrlRunLength(s) ==
    IF s = <<>> \/ s[1] \in Whitespace \cup {"<", ">", "(", ")"} THEN 0
    ELSE 1 + UrlRunLength(Tail(s))

\* _AUTO_URL_RE.match(text, p): the length of the match, 0 when none.
AutoUrlMatch(text, p) ==
    LET prefixes == {<<"h", "t", "t", "p", ":", "/", "/">>,
                     <<"h", "t", "t", "p", "s", ":", "/", "/">>,
                     <<"w", "w", "w", ".">>}
        here == {pre \in prefixes : StartsAt(text, pre, p)}
    IN  IF here = {} THEN 0
        ELSE LET pre == CHOOSE x \in here : TRUE
                 rest == Drop(text, p - 1 + Len(pre))
                 more == UrlRunLength(rest)
             IN  IF more = 0 THEN 0 ELSE Len(pre) + more

\* _normalize_url
NormalizeUrl(url) ==
    LET u == Strip(url)
        w == IF StartsWith(Lower(u), <<"w", "w", "w", ".">>)
             THEN <<"h", "t", "t", "p", "s", ":", "/", "/">> \o u ELSE u
    IN  SubSeq(w, 1, Len(w) - TrailCount(w, TrailingPunctuation))

\* The closing "$" of inline math opened before from: the first one that no
\* backslash precedes; 0 when there is none.
DollarClose(text, from) ==
    LET found == {p \in from..Len(text) : text[p] = "$" /\ text[p - 1] # BSL}
    IN  IF found = {} THEN 0 ELSE CHOOSE p \in found : \A q \in found : p <= q

\* What was added to the paragraph.
Run(kind, s, f) ==
    [kind |-> kind, text |-> s, bold |-> f.bold, italic |-> f.italic, strike |-> f.strike]

\* _add_text_run: an empty string adds nothing.
TextRun(s, f) == IF s = <<>> THEN <<>> ELSE <<Run("text", s, f)>>

\* _add_inline_equation: an empty equation adds nothing; with MATH_ENABLE
\* off, without the LaTeX converter or when it fails, the text \(latex\).
EquationRun(latex, f, converts) ==
    IF Strip(latex) = <<>> THEN <<>>
    ELSE IF converts THEN <<Run("equation", Strip(latex), f)>>
    ELSE <<Run("text", <<BSL, "(">> \o Strip(latex) \o <<BSL, ")">>, f)>>

\* One iteration's outcome: the branch taken, the position after it, what is
\* added, and the interior handed to a recursive call, if any.
Outcome(branch, next, runs) ==
    [branch |-> branch, next |-> next, runs |-> runs,
     recurse |-> FALSE, inner |-> <<>>, style |-> None]
Recursion(branch, next, inner, style) ==
    [branch |-> branch, next |-> next, runs |-> <<>>,
     recurse |-> TRUE, inner |-> inner, style |-> style]
NoMatch == Outcome(None, 0, <<>>)

\* The span flags without formatting, for what is not a text run.
Plain(r) == [r EXCEPT !.bold = FALSE, !.italic = FALSE, !.strike = FALSE]

\* A character str.isdigit accepts and int() refuses: a circled digit (a
\* superscript digit is another).
CircledOne == "<U+2460>"

\* str.isdigit()
IsDigitStr(s) == s # <<>> /\ \A k \in 1..Len(s) : s[k] \in Digits \cup {CircledOne}

\* int(inner) is defined on the decimal digits only.
IsDecimalStr(s) == s # <<>> /\ \A k \in 1..Len(s) : s[k] \in Digits

\* _add_internal_hyperlink(paragraph, f"[{idx}]", anchor)
CitationRun(idx, anchor) ==
    [kind |-> "citation", text |-> <<"[">> \o Str(idx) \o <<"]">>,
     bold |-> FALSE, italic |-> FALSE, strike |-> FALSE, anchor |-> anchor]

\* int(inner) of a string of digits.
RECURSIVE ToInt(_)
ToInt(s) ==
    IF s = <<>> THEN 0
    ELSE 10 * ToInt(SubSeq(s, 1, Len(s) - 1))
         + (CHOOSE d \in 0..9 : ToString(d) = s[Len(s)])

\* ![alt](url)
ImageBranch(f) ==
    LET text == f.text
        i == f.i
        close == Find(text, <<"]">>, i + 2)
        close_paren == IF close # 0 /\ close + 1 <= Len(text) /\ text[close + 1] = "("
                       THEN Find(text, <<")">>, close + 2) ELSE 0
    IN  IF StartsAt(text, <<"!", "[">>, i) /\ close_paren # 0
        THEN LET raw == Strip(SubSeq(text, close + 2, close_paren - 1))
                 url == IF StartsWith(raw, <<"<">>) /\ EndsWith(raw, <<">">>) /\ Len(raw) >= 2
                        THEN Strip(SubSeq(raw, 2, Len(raw) - 1)) ELSE raw
             IN  Outcome("image", close_paren + 1, <<Plain(Run("image", url, f))>>)
        ELSE NoMatch

\* _add_code_run: an empty chunk adds nothing.
CodeRun(chunk, f) == IF chunk = <<>> THEN <<>> ELSE <<Plain(Run("code", chunk, f))>>

\* The first position of s a bare URL starts at (the next match of
\* _AUTO_URL_RE.finditer); 0 when there is none.
FirstUrl(s) ==
    IF \A p \in 1..Len(s) : AutoUrlMatch(s, p) = 0 THEN 0
    ELSE CHOOSE p \in 1..Len(s) :
            /\ AutoUrlMatch(s, p) > 0
            /\ \A q \in 1..(p - 1) : AutoUrlMatch(s, q) = 0

\* What one match of _AUTO_URL_RE adds: a hyperlink in the code font for the
\* URL without its trailing punctuation, then the punctuation as code.
CodeUrlRuns(raw, f) ==
    IF NormalizeUrl(SubSeq(raw, 1, Len(raw) - TrailCount(raw, TrailingPunctuation))) # <<>>
    THEN <<Plain(Run("code_link", SubSeq(raw, 1, Len(raw) - TrailCount(raw, TrailingPunctuation)), f))>>
         \o CodeRun(Drop(raw, Len(raw) - TrailCount(raw, TrailingPunctuation)), f)
    ELSE CodeRun(raw, f)
         \o CodeRun(Drop(raw, Len(raw) - TrailCount(raw, TrailingPunctuation)), f)

\* _add_inline_code: the text in code runs, every bare URL in it a hyperlink.
RECURSIVE AddInlineCodeFrom(_, _, _)
AddInlineCodeFrom(s, f, p) ==
    IF p = 0 THEN CodeRun(s, f)
    ELSE CodeRun(SubSeq(s, 1, p - 1), f)
         \o CodeUrlRuns(SubSeq(s, p, p + AutoUrlMatch(s, p) - 1), f)
         \o AddInlineCodeFrom(Drop(s, p + AutoUrlMatch(s, p) - 1), f,
                              FirstUrl(Drop(s, p + AutoUrlMatch(s, p) - 1)))

AddInlineCode(s, f) == AddInlineCodeFrom(s, f, FirstUrl(s))

\* A code span between two backquotes.
CodeBranch(f) ==
    LET j == Find(f.text, <<BQ>>, f.i + 1)
    IN  IF f.text[f.i] = BQ /\ j # 0
        THEN Outcome("code", j + 1, AddInlineCode(SubSeq(f.text, f.i + 1, j - 1), f))
        ELSE NoMatch

\* \( ... \)
ParenMathBranch(f, math) ==
    LET j == Find(f.text, <<BSL, ")">>, f.i + 2)
    IN  IF StartsAt(f.text, <<BSL, "(">>, f.i) /\ j # 0
        THEN Outcome("inline_equation", j + 2, EquationRun(SubSeq(f.text, f.i + 2, j - 1), f, math.converts))
        ELSE NoMatch

\* A backslash that escapes nothing.
EscapeBranch_Kept(f) ==
    IF f.text[f.i] # BSL THEN NoMatch
    ELSE Outcome("backslash", f.i + 1, TextRun(<<BSL>>, f))

\* A backslash: the escaped character, or the backslash itself.
EscapeBranch(f) ==
    IF f.text[f.i] # BSL THEN NoMatch
    ELSE IF f.i + 1 <= Len(f.text) /\ f.text[f.i + 1] \in EscapeSet
    THEN Outcome("escape", f.i + 2, TextRun(<<f.text[f.i + 1]>>, f))
    ELSE Outcome("backslash", f.i + 1, TextRun(<<BSL>>, f))

\* A run of four or more of "_", "*" or "~".
LongRunBranch(f) ==
    LET c == f.text[f.i]
        run_len == LeadCount(Drop(f.text, f.i - 1), {c})
    IN  IF c \in {"_", "*", "~"} /\ run_len >= 4
        THEN Outcome("long_run", f.i + run_len, TextRun(SubSeq(f.text, f.i, f.i + run_len - 1), f))
        ELSE NoMatch

\* $...$ without the whitespace tests inside the delimiters.
DollarBranch_LooseSpace(f, math) ==
    LET text == f.text
        i == f.i
        n == Len(text)
        literal == Outcome("dollar_literal", i + 1, TextRun(<<"$">>, f))
        j == DollarClose(text, i + 1)
        inner == SubSeq(text, i + 1, j - 1)
    IN  IF ~(text[i] = "$" /\ math.dollar) THEN NoMatch
        ELSE IF StartsAt(text, <<"$", "$">>, i) THEN literal
        ELSE IF i + 1 > n THEN literal
        ELSE IF i > 1 /\ IsAlnum(text[i - 1]) THEN literal
        ELSE IF j # 0 /\ inner # <<>> /\ (\A k \in 1..Len(inner) : inner[k] # "\n")
        THEN IF IsCurrencyNumber(inner) /\ (i = 1 \/ IsSpace(text[i - 1])) THEN literal
             ELSE IF j + 1 <= n /\ IsDigit(text[j + 1]) THEN literal
             ELSE Outcome("dollar_equation", j + 1, EquationRun(inner, f, math.converts))
        ELSE literal

\* $...$ when both math options are on (math.dollar): an equation, or a
\* literal "$".
DollarBranch(f, math) ==
    LET text == f.text
        i == f.i
        n == Len(text)
        literal == Outcome("dollar_literal", i + 1, TextRun(<<"$">>, f))
        j == DollarClose(text, i + 1)
        inner == SubSeq(text, i + 1, j - 1)
    IN  IF ~(text[i] = "$" /\ math.dollar) THEN NoMatch
        ELSE IF StartsAt(text, <<"$", "$">>, i) THEN literal
        ELSE IF i + 1 > n \/ IsSpace(text[i + 1]) THEN literal
        ELSE IF i > 1 /\ IsAlnum(text[i - 1]) THEN literal
        ELSE IF j # 0 /\ inner # <<>> /\ (\A k \in 1..Len(inner) : inner[k] # "\n")
                /\ ~IsSpace(inner[1]) /\ ~IsSpace(inner[Len(inner)])
        THEN IF IsCurrencyNumber(inner) /\ (i = 1 \/ IsSpace(text[i - 1])) THEN literal
             ELSE IF j + 1 <= n /\ IsDigit(text[j + 1]) THEN literal
             ELSE Outcome("dollar_equation", j + 1, EquationRun(inner, f, math.converts))
        ELSE literal

\* ~~...~~, **...** and __...__: the interior is resolved recursively.
PairBranch(f, delim, style) ==
    LET j == Find(f.text, delim, f.i + 2)
    IN  IF StartsAt(f.text, delim, f.i) /\ j # 0
        THEN Recursion(style, j + 2, SubSeq(f.text, f.i + 2, j - 1), style)
        ELSE NoMatch

\* *...* and _..._: the interior is resolved recursively.
ItalicBranch(f, c) ==
    LET j == Find(f.text, <<c>>, f.i + 1)
    IN  IF f.text[f.i] = c /\ (f.i + 1 > Len(f.text) \/ f.text[f.i + 1] # c) /\ j # 0
        THEN Recursion("italic", j + 1, SubSeq(f.text, f.i + 1, j - 1), "italic")
        ELSE NoMatch

\* A citation marker [N] that has an anchor; anchors is
\* self._citation_anchor_by_index. int(inner) raises ValueError on a digit
\* that is not a decimal one.
CitationMarker(inner, next, anchors) ==
    IF ~IsDigitStr(inner) THEN NoMatch
    ELSE IF ~IsDecimalStr(inner) THEN Outcome("raise", 0, <<>>)
    ELSE IF ToInt(inner) \in DOMAIN anchors
    THEN Outcome("citation", next, <<CitationRun(ToInt(inner), anchors[ToInt(inner)])>>)
    ELSE NoMatch

\* [label](url), or a citation marker.
BracketBranch(f, anchors) ==
    LET text == f.text
        i == f.i
        close == Find(text, <<"]">>, i + 1)
        close_paren == IF close # 0 /\ close + 1 <= Len(text) /\ text[close + 1] = "("
                       THEN Find(text, <<")">>, close + 2) ELSE 0
        inner == Strip(SubSeq(text, i + 1, close - 1))
    IN  IF text[i] # "[" THEN NoMatch
        ELSE IF close_paren # 0
        THEN Outcome("link", close_paren + 1, <<Plain(Run("link", SubSeq(text, i + 1, close - 1), f))>>)
        ELSE IF close # 0 THEN CitationMarker(inner, close + 1, anchors)
        ELSE NoMatch

\* A bare URL: the link, then the punctuation trimmed off its end.
AutolinkBranch(f) ==
    LET len == AutoUrlMatch(f.text, f.i)
        raw == SubSeq(f.text, f.i, f.i + len - 1)
        trimmed == SubSeq(raw, 1, Len(raw) - TrailCount(raw, TrailingPunctuation))
        suffix == Drop(raw, Len(trimmed))
    IN  IF len = 0 THEN NoMatch
        ELSE IF NormalizeUrl(trimmed) # <<>>
        THEN Outcome("autolink", f.i + len, <<Plain(Run("link", trimmed, f))>> \o TextRun(suffix, f))
        ELSE Outcome("autolink", f.i + len, TextRun(raw, f))

\* The fallback without its forced step at a special position.
LiteralFallback_Stuck(f) ==
    LET j == NextSpecial(f.text, f.i)
    IN  Outcome("literal", j, TextRun(SubSeq(f.text, f.i, j - 1), f))

\* The text up to the next special position; at a special position that
\* matched nothing, the one character.
LiteralFallback(f) ==
    LET j == NextSpecial(f.text, f.i)
    IN  IF j = f.i
        THEN Outcome("literal", f.i + 1, TextRun(<<f.text[f.i]>>, f))
        ELSE Outcome("literal", j, TextRun(SubSeq(f.text, f.i, j - 1), f))

\* The branches in the order the loop tries them.
Branches(f, math, anchors) ==
    <<ImageBranch(f), CodeBranch(f), ParenMathBranch(f, math), EscapeBranch(f), LongRunBranch(f),
      DollarBranch(f, math),
      PairBranch(f, <<"~", "~">>, "strike"), PairBranch(f, <<"*", "*">>, "bold"),
      PairBranch(f, <<"_", "_">>, "bold"), ItalicBranch(f, "*"), ItalicBranch(f, "_"),
      BracketBranch(f, anchors), AutolinkBranch(f), LiteralFallback(f)>>

\* The first branch of the loop body that does not fall through.
FirstMatch(bs) ==
    bs[CHOOSE k \in 1..Len(bs) : bs[k] # NoMatch /\ \A m \in 1..(k - 1) : bs[m] = NoMatch]

\* One iteration of while i < n: the first branch that continues.
ScanStep(f, math, anchors) == FirstMatch(Branches(f, math, anchors))

\* The lengths up to which every text over InlineAlphabet is resolved.
MaxTextLen == 3

InlineAlphabet == {"*", "_", "~", "$", BQ, BSL, "[", "a"}

\* Texts with the spans the short ones cannot hold.
InlineSamples ==
    { <<"!", "[", "a", "]", "(", "u", ")">>,
      <<"!", "[", "a", "]", "(", "<", "u", ">", ")">>,
      <<"!", "[", "a", "]">>,
      <<"[", "a", "]", "(", "u", ")">>,
      <<"[", "a", "]", "(", "w", "w", "w", ".", "b", ")">>,
      <<"[", "1", "]">>,
      <<"[", " ", "0", "1", " ", "]">>,
      <<"[", "2", "]">>,
      <<"[", "3", "]">>,
      <<"[", "1">>,
      <<"[", "1", "]", "(", "u">>,
      <<"[", "1", "]", "(", "u", ")">>,
      <<"a", "[", "1", "]", "[", "2", "]", "[", "1", "2", "]">>,
      <<"*", "*", "[", "2", "]", "*", "*">>,
      <<"[", CircledOne, "]">>,
      <<"$", "5">>,
      <<"$", "5", ".", "0", "0">>,
      <<"$", "x", "+", "y", "$">>,
      <<"$", " ", "x", " ", "$">>,
      <<BSL, "*", "n", "o", "t", " ", "b", "o", "l", "d", BSL, "*">>,
      <<BSL, "(", "a", BSL, ")">>,
      <<BSL, "(", "a">>,
      <<BSL, "*", "a">>,
      <<BSL, "a">>,
      <<"_", "_", "_", "_">>,
      <<"*", "*", "*", "*", "a">>,
      <<"~", "~", "~", "~", "~">>,
      <<"$", "a", "$">>,
      <<"$", "5", "$">>,
      <<"$", "5", ",", "0", ".", "5", "$", " ">>,
      <<"$", "a", "$", "1">>,
      <<"a", "$", "b", "$">>,
      <<"$", " ", "a", "$">>,
      <<"$", "a", BSL, "$", "b", "$">>,
      <<"$", "$", "a", "$", "$">>,
      <<"x", " ", "$", "a", "$", " ", "y">>,
      <<"~", "~", "a", "~", "~">>,
      <<"*", "*", "a", "*", "*">>,
      <<"_", "_", "a", "_", "_">>,
      <<"*", "a", "*">>,
      <<"_", "a", "_">>,
      <<"*", "*", "_", "a", "_", "*", "*">>,
      <<"~", "~", "*", "*", "a", "*", "*", "~", "~">>,
      <<"*", "a", "*", "*", "b", "*">>,
      <<"*", "*", "a", "*">>,
      <<"_", "_">>,
      <<"h", "t", "t", "p", ":", "/", "/", "a", ".">>,
      <<"h", "t", "t", "p", "s", ":", "/", "/", "a", ")">>,
      <<"w", "w", "w", ".", "a", ",", "b">>,
      <<"h", "t", "t", "p", ":", "/", "/">>,
      <<"w", "w", "w", ".">>,
      <<"a", " ", "w", "w", "w", ".", "b", "!">>,
      <<"h", "t", "t", "p", ":", "/", "/", "a", "(", "b">>,
      <<BQ, "a", BQ>>,
      <<BQ, "w", "w", "w", ".", "a", BQ>>,
      <<BQ, "*", "a", "*", " ", "w", "w", "w", ".", "b", ".", " ", "[", "1", "]", BQ>>,
      <<BQ, "$", "x", "$", BQ, "*", "b", "*">>,
      <<"a", BQ, "b">>,
      <<"a", "!", "b">> }

InlineTexts == SeqsOf(InlineAlphabet, 0, MaxTextLen) \cup InlineSamples

\* The documents of the sources the conversion was given: none, one, or two
\* of different sources.
InlineDocs ==
    LET meta == [source |-> <<"s", "1">>, title |-> <<"T", "1">>, name |-> NoStr, url |-> NoStr]
        other == [source |-> <<"h", "t", "t", "p", "s", ":", "/", "/", "u">>, title |-> NoStr,
                  name |-> <<"n">>, url |-> NoStr]
        group == [dict |-> TRUE, id |-> NoStr, name |-> NoStr, urls |-> <<>>]
    IN  { <<>>, << <<meta, group>> >>, << <<meta, group>>, <<other, group>>, <<meta, group>> >> }

NoLast == [branch |-> None, from |-> 0, to |-> 0, n |-> 0, recurse |-> FALSE, inner |-> 0]

\* What the resolver reads of the math options: dollar is MATH_ENABLE and
\* MATH_INLINE_DOLLAR_ENABLE, converts is MATH_ENABLE with a LaTeX converter
\* that is installed and succeeds.
MathOptions == [dollar : BOOLEAN, converts : BOOLEAN]
MathOn == [dollar |-> TRUE, converts |-> TRUE]

InlineParked ==
    [pc |-> "parked", text |-> <<>>, math |-> MathOn, refs |-> <<>>, stack |-> <<>>, out |-> <<>>,
     last |-> NoLast]

\* add_formatted_text: the resolver is entered with no formatting, in a
\* conversion that has built its references (lines 1306-1310).
InlineInit ==
    \E text \in InlineTexts, math \in MathOptions, docs \in InlineDocs :
        inl = [InlineParked EXCEPT
                 !.pc = "scan", !.text = text, !.math = math,
                 !.refs = BuildCitationRefs(docs),
                 !.stack = <<[text |-> text, i |-> 1, bold |-> FALSE, italic |-> FALSE, strike |-> FALSE]>>]

\* The activation that is running.
Top == inl.stack[Len(inl.stack)]

LastOf(f, o) ==
    [branch |-> o.branch, from |-> f.i, to |-> o.next, n |-> Len(f.text),
     recurse |-> o.recurse, inner |-> Len(o.inner)]

\* An iteration that adds its runs and goes on.
InlineAdvance ==
    /\ inl.pc = "scan"
    /\ Top.i <= Len(Top.text)
    /\ LET o == ScanStep(Top, inl.math, AnchorByIndex(inl.refs))
       IN  /\ ~o.recurse
           /\ o.branch # "raise"
           /\ inl' = [inl EXCEPT !.stack[Len(inl.stack)].i = o.next,
                                 !.out = @ \o o.runs,
                                 !.last = LastOf(Top, o)]

\* An iteration that resolves an interior: the call is entered, the caller
\* goes on behind the closing delimiter once it returns.
InlineRecurse ==
    /\ inl.pc = "scan"
    /\ Top.i <= Len(Top.text)
    /\ LET o == ScanStep(Top, inl.math, AnchorByIndex(inl.refs))
       IN  /\ o.recurse
           /\ inl' = [inl EXCEPT
                 !.stack = Append([@ EXCEPT ![Len(inl.stack)].i = o.next],
                                  [text |-> o.inner, i |-> 1,
                                   bold |-> Top.bold \/ o.style = "bold",
                                   italic |-> Top.italic \/ o.style = "italic",
                                   strike |-> Top.strike \/ o.style = "strike"]),
                 !.last = LastOf(Top, o)]

\* while i < n is over: the activation returns.
InlineReturn ==
    /\ inl.pc = "scan"
    /\ Top.i > Len(Top.text)
    /\ inl' = [inl EXCEPT
          !.stack = SubSeq(@, 1, Len(@) - 1),
          !.pc = IF Len(inl.stack) = 1 THEN "done" ELSE "scan",
          !.last = [NoLast EXCEPT !.branch = "return"]]

\* int(inner) raises: nothing in the resolver catches it, every activation
\* is left.
InlineRaise ==
    /\ inl.pc = "scan"
    /\ Top.i <= Len(Top.text)
    /\ ScanStep(Top, inl.math, AnchorByIndex(inl.refs)).branch = "raise"
    /\ inl' = [inl EXCEPT !.pc = "raised",
                          !.last = [NoLast EXCEPT !.branch = "raise", !.from = Top.i,
                                                  !.n = Len(Top.text)]]

InlineNext == InlineAdvance \/ InlineRecurse \/ InlineReturn \/ InlineRaise

(***************************************************************************)
(* Specifications                                                          *)
(***************************************************************************)
(***************************************************************************)
(* Image embedding: Action._embed_markdown_image and the fetch of a file   *)
(***************************************************************************)

\* The stand-in for 1024 * 1024 bytes, and the largest MAX_EMBED_IMAGE_MB
\* the images are embedded under.
MiB == 2
MaxEmbedMB == 1

\* _max_embed_image_bytes
MaxEmbedImageBytes(mb) == Max(1, mb) * MiB

\* Bytes are known by their length and by the size of the resource they were
\* taken from. NoBytes is None.
NoBytes == [len |-> -1, of |-> -1]

\* stream.read(amt) on a resource of size bytes: the first amt bytes at most.
Read(size, amt) == [len |-> Min(size, amt), of |-> size]

\* Bytes that are in memory already.
Held(size) == [len |-> size, of |-> size]

\* What one fetch attempt did: the size of the resource (-1 when there is
\* none), the amount asked of its stream (0 when it was not read), the bytes
\* it returned.
Attempt(size, amt, data) == [size |-> size, amt |-> amt, data |-> data]

\* A limited read that hands out the first max_bytes bytes it got.
ReadLimited_Truncating(size, max_bytes) ==
    Attempt(size, max_bytes + 1, Read(size, max_bytes))

\* data = f.read(max_bytes + 1); if len(data) > max_bytes: return None
ReadLimited(size, max_bytes) ==
    LET data == Read(size, max_bytes + 1)
    IN  Attempt(size, max_bytes + 1, IF data.len > max_bytes THEN NoBytes ELSE data)

\* _read_file_bytes_limited; path: whether it exists, whether stat and open
\* work, its size.
ReadFileBytesLimited(path, max_bytes) ==
    IF ~path.exists THEN Attempt(-1, 0, NoBytes)
    ELSE IF path.stat_ok /\ path.size > max_bytes THEN Attempt(path.size, 0, NoBytes)
    ELSE IF path.raises THEN Attempt(path.size, 0, NoBytes)
    ELSE ReadLimited(path.size, max_bytes)

\* _decode_base64_limited; b64: the characters left without whitespace, and
\* what b64decode makes of them (decoded bytes, -1 for an error).
DecodeBase64Limited(b64, max_bytes) ==
    IF b64.chars = 0 THEN Attempt(-1, 0, NoBytes)
    ELSE IF (b64.chars * 3) \div 4 > max_bytes THEN Attempt(b64.decoded, 0, NoBytes)
    ELSE IF b64.decoded < 0 THEN Attempt(-1, 0, NoBytes)
    ELSE IF b64.decoded > max_bytes THEN Attempt(b64.decoded, 0, NoBytes)
    ELSE Attempt(b64.decoded, 0, Held(b64.decoded))

\* What b64decode can make of n characters: an error, or 3 bytes of 4
\* characters at most.
Decodings(n) == {[chars |-> n, decoded |-> d] : d \in -1..((n * 3) \div 4)}

\* _read_from_s3; s3: whether boto3 and the credentials are there, whether
\* the request fails, the object's size.
ReadFromS3(s3, max_bytes) ==
    IF ~s3.configured \/ s3.raises THEN Attempt(-1, 0, NoBytes)
    ELSE ReadLimited(s3.size, max_bytes)

\* urllib.request.urlopen(req, timeout=15) and the read of a 2xx response.
FetchUrl(response, max_bytes) ==
    IF response.raises \/ ~response.ok THEN Attempt(-1, 0, NoBytes)
    ELSE ReadLimited(response.size, max_bytes)

\* return raw if len(raw) <= max_bytes else None
HeldLimited(size, max_bytes) ==
    Attempt(size, 0, IF size <= max_bytes THEN Held(size) ELSE NoBytes)

\* _OWUI_API_FILE_ID_RE.search(url) on a stripped URL: the id behind the first
\* "/api/v1/files/" that an id and then "/", "?", "#" or the end follow; NoStr
\* without one.
ApiFilesPrefix == <<"/", "a", "p", "i", "/", "v", "1", "/", "f", "i", "l", "e", "s", "/">>
IdChars == Letters \cup Digits \cup {"-"}
FileIdAt(url, p) ==
    LET from == p + Len(ApiFilesPrefix)
        n == LeadCount(Drop(url, from - 1), IdChars)
    IN  IF /\ url[p] = "/"
           /\ StartsAt(Lower(url), ApiFilesPrefix, p)
           /\ n >= 1
           /\ (from + n > Len(url) \/ url[from + n] \in {"/", "?", "#"})
        THEN SubSeq(url, from, from + n - 1)
        ELSE NoStr

\* _extract_owui_api_file_id
ExtractOwuiApiFileId(url) ==
    LET P == {p \in 1..Len(url) : FileIdAt(url, p) # NoStr}
    IN  IF P = {} THEN NoStr ELSE FileIdAt(url, CHOOSE p \in P : \A q \in P : p <= q)

\* _DATA_IMAGE_URL_RE.match(url.strip()): the b64 group, NoStr without a match.
MimeChars == {LowerCase[k] : k \in 1..26} \cup Digits \cup {".", "+", "-"}
SkipWs(s, p) == p + LeadCount(Drop(s, p - 1), Whitespace)
DataUrlPayload(url) ==
    LET u == Strip(url)
        low == Lower(u)
        mime == LeadCount(Drop(low, 11), MimeChars)
        semi == SkipWs(u, 12 + mime)
        word == SkipWs(u, semi + 1)
        comma == SkipWs(u, word + 6)
    IN  IF /\ StartsAt(low, <<"d", "a", "t", "a", ":", "i", "m", "a", "g", "e", "/">>, 1)
           /\ mime >= 1
           /\ StartsAt(low, <<";">>, semi)
           /\ StartsAt(low, <<"b", "a", "s", "e", "6", "4">>, word)
           /\ StartsAt(low, <<",">>, comma)
        THEN Drop(u, SkipWs(u, comma + 1) - 1)
        ELSE NoStr

\* len(re.sub(r"\s+", "", b64.strip()))
PayloadChars(b64) == Len(SelectSeq(b64, LAMBDA c : c \notin Whitespace))

\* _add_image_placeholder: the run "[{label} not embedded: {reason}]".
ImagePlaceholder(alt, reason) ==
    [kind |-> "text",
     text |-> <<"[">> \o (IF Strip(alt) = <<>> THEN <<"i", "m", "a", "g", "e">> ELSE Strip(alt))
              \o <<" ", "n", "o", "t", " ", "e", "m", "b", "e", "d", "d", "e", "d", ":", " ">> \o reason \o <<"]">>]

\* The picture run of an embedded image.
Picture(data) == [kind |-> "picture", data |-> data]

\* The run add_run has made when add_picture then refuses the bytes.
EmptyRun == [kind |-> "run", text |-> <<>>]

\* What _embed_markdown_image tells about an image it does not embed.
MissingUrl == <<"m", "i", "s", "s", "i", "n", "g", " ", "U", "R", "L">>
InvalidDataUrl(mb) == <<"i", "n", "v", "a", "l", "i", "d", " ", "d", "a", "t", "a", " ", "U", "R", "L", " ", "o", "r", " ", "e", "x", "c", "e", "e", "d", "s", " ">> \o Str(mb) \o <<"M", "B">>
ExternalUrl == <<"e", "x", "t", "e", "r", "n", "a", "l", " ", "U", "R", "L">>
FileUnavailable(file_id) == <<"f", "i", "l", "e", " ", "u", "n", "a", "v", "a", "i", "l", "a", "b", "l", "e", " ", "(">> \o file_id \o <<")">>
UnsupportedType == <<"u", "n", "s", "u", "p", "p", "o", "r", "t", "e", "d", " ", "i", "m", "a", "g", "e", " ", "t", "y", "p", "e", ":", " ">>

\* The image URLs of the model.
ImageUrls ==
    { <<>>,
      <<" ">>,
      <<"d", "a", "t", "a", ":", "i", "m", "a", "g", "e", "/", "p", "n", "g", ";", "b", "a", "s", "e", "6", "4", ",", "Q", "Q">>,
      <<"D", "A", "T", "A", ":", "I", "m", "a", "g", "e", "/", "x", " ", ";", " ", "b", "a", "s", "e", "6", "4", " ", ",", " ", "Q", "U", "J", "D">>,
      <<"d", "a", "t", "a", ":", "t", "e", "x", "t", "/", "p", "l", "a", "i", "n", ";", "b", "a", "s", "e", "6", "4", ",", "Q", "Q">>,
      <<"d", "a", "t", "a", ":", "i", "m", "a", "g", "e", "/", "p", "n", "g", ";", "b", "a", "s", "e", "6", "4", ",">>,
      <<"/", "a", "p", "i", "/", "v", "1", "/", "f", "i", "l", "e", "s", "/", "f", "1", "/", "c", "o", "n", "t", "e", "n", "t">>,
      <<"h", "t", "t", "p", ":", "/", "/", "h", "/", "A", "P", "I", "/", "v", "1", "/", "f", "i", "l", "e", "s", "/", "a", "-", "1", "?", "x">>,
      <<" ", "x", "/", "a", "p", "i", "/", "v", "1", "/", "f", "i", "l", "e", "s", "/", "!", "/", "a", "p", "i", "/", "v", "1", "/", "f", "i", "l", "e", "s", "/", "f", "2", "#">>,
      <<"/", "a", "p", "i", "/", "v", "1", "/", "f", "i", "l", "e", "s", "/", "f", "1", ".", "p", "n", "g">>,
      <<"/", "a", "p", "i", "/", "v", "1", "/", "f", "i", "l", "e", "s", "/">>,
      <<"h", "t", "t", "p", ":", "/", "/", "h", "/", "a", ".", "p", "n", "g">> }

\* What Files.get_file_by_id returns, as far as the fetch looks at it: the
\* data dict (absent, with bytes, with a base64 text, with a url only), the
\* path and file_path attributes, the url attribute, a content attribute;
\* and whether the handler has an API base URL.
FileObjects ==
    [data : {"none", "bytes", "b64", "url"},
     path : {"none", "s3", "abs", "rel"},
     file_path : {"none", "rel"},
     url : {"none", "http"},
     content : BOOLEAN,
     api : BOOLEAN]

NoFile ==
    [data |-> "none", path |-> "none", file_path |-> "none", url |-> "none",
     content |-> FALSE, api |-> FALSE]

\* The files the local strategy tries for one attribute: the path as it is,
\* and for a relative one under ./data and under /app/backend/data.
LocalAttempts(kind) ==
    IF kind = "abs" THEN <<"as-is">>
    ELSE IF kind = "rel" THEN <<"as-is", "./data", "/app/backend/data">>
    ELSE <<>>

LocalCandidates(file) == LocalAttempts(file.path) \o LocalAttempts(file.file_path)

\* urls_to_try
UrlsToTry(file) ==
    (IF file.url = "http" THEN <<"url">> ELSE <<>>)
    \o (IF file.data = "url" THEN <<"data.url">> ELSE <<>>)

\* The sizes of the resources the fetch meets.
Sizes(max_bytes) == 0..(max_bytes + 2)

Paths(max_bytes) ==
    {[exists |-> FALSE, stat_ok |-> TRUE, raises |-> FALSE, size |-> 0]}
    \cup [exists : {TRUE}, stat_ok : BOOLEAN, raises : BOOLEAN, size : Sizes(max_bytes)]

ImageParked ==
    [pc |-> "parked", alt |-> <<>>, url |-> <<>>, mb |-> 0, max_bytes |-> 0,
     file_id |-> NoStr, file |-> NoFile, k |-> 1, tried |-> <<>>,
     last |-> Attempt(-1, 0, NoBytes), result |-> NoBytes, runs |-> <<>>]

\* _embed_markdown_image(paragraph, alt, url) is called.
ImageInit ==
    \E url \in ImageUrls, alt \in {<<>>, <<"a">>}, mb \in 0..MaxEmbedMB :
        img = [ImageParked EXCEPT !.pc = "start", !.alt = alt, !.url = url, !.mb = mb,
                                  !.max_bytes = MaxEmbedImageBytes(mb)]

Placed(reason) ==
    [img EXCEPT !.pc = "done", !.runs = Append(@, ImagePlaceholder(img.alt, reason))]

Tried(strategy, attempt) ==
    [img EXCEPT !.tried = Append(@, strategy), !.last = attempt]

\* The fetch returns: with bytes, or with None.
Returned(strategy, attempt) ==
    [Tried(strategy, attempt) EXCEPT !.pc = "fetched", !.result = attempt.data]

\* The strategy gave nothing: the fetch goes on at pc.
FellThrough(strategy, attempt, pc) ==
    [Tried(strategy, attempt) EXCEPT !.pc = pc, !.k = 1]

\* A start that fetches an external URL like a public URL of a stored file.
EmbedStart_FetchExternal ==
    /\ img.pc = "start"
    /\ LET u == Strip(img.url)
       IN  img' = IF u = <<>> THEN Placed(MissingUrl)
                  ELSE IF StartsWith(Lower(u), <<"d", "a", "t", "a", ":">>) THEN [img EXCEPT !.pc = "data"]
                  ELSE IF ExtractOwuiApiFileId(u) = NoStr
                  THEN [img EXCEPT !.pc = "url", !.file = [NoFile EXCEPT !.url = "http"]]
                  ELSE [img EXCEPT !.pc = "lookup", !.file_id = ExtractOwuiApiFileId(u)]

\* The URL is looked at: missing, a data URL, the URL of a stored file, or
\* an external one, which is not fetched.
EmbedStart ==
    /\ img.pc = "start"
    /\ LET u == Strip(img.url)
       IN  img' = IF u = <<>> THEN Placed(MissingUrl)
                  ELSE IF StartsWith(Lower(u), <<"d", "a", "t", "a", ":">>) THEN [img EXCEPT !.pc = "data"]
                  ELSE IF ExtractOwuiApiFileId(u) = NoStr THEN Placed(ExternalUrl)
                  ELSE [img EXCEPT !.pc = "lookup", !.file_id = ExtractOwuiApiFileId(u)]

\* _image_bytes_from_data_url
DecodeDataUrl ==
    /\ img.pc = "data"
    /\ LET b64 == DataUrlPayload(Strip(img.url))
       IN  IF b64 = NoStr
           THEN img' = Placed(InvalidDataUrl(img.mb))
           ELSE \E d \in Decodings(PayloadChars(Strip(b64))) :
                   LET a == DecodeBase64Limited(d, img.max_bytes)
                   IN  img' = IF a.data = NoBytes
                              THEN [Placed(InvalidDataUrl(img.mb)) EXCEPT
                                       !.tried = Append(@, "data_url"), !.last = a]
                              ELSE Returned("data_url", a)

\* Files.get_file_by_id(file_id): no Files model, an exception, no such
\* file, or the file object.
LookupFile ==
    /\ img.pc = "lookup"
    /\ \/ img' = [img EXCEPT !.pc = "fetched", !.result = NoBytes]
       \/ \E file \in FileObjects : img' = [img EXCEPT !.pc = "inline", !.file = file]

\* 1. the data field: stored bytes, or a base64 text; either ends the fetch.
TryInlineData ==
    /\ img.pc = "inline"
    /\ IF img.file.data = "bytes"
       THEN \E size \in Sizes(img.max_bytes) :
               img' = Returned("inline", HeldLimited(size, img.max_bytes))
       ELSE IF img.file.data = "b64"
       THEN \E n \in 1..(2 * img.max_bytes) : \E d \in Decodings(n) :
               img' = Returned("inline", DecodeBase64Limited(d, img.max_bytes))
       ELSE img' = [img EXCEPT !.pc = "s3"]

\* 2. the direct read of an s3:// path.
TryS3 ==
    /\ img.pc = "s3"
    /\ IF img.file.path = "s3"
       THEN \E s3 \in [configured : BOOLEAN, raises : BOOLEAN, size : Sizes(img.max_bytes)] :
               LET a == ReadFromS3(s3, img.max_bytes)
               IN  img' = IF a.data # NoBytes THEN Returned("s3", a)
                          ELSE FellThrough("s3", a, "local")
       ELSE img' = [img EXCEPT !.pc = "local", !.k = 1]

\* 3. the next local file of the candidates.
TryLocalFile ==
    /\ img.pc = "local"
    /\ IF img.k <= Len(LocalCandidates(img.file))
       THEN \E path \in Paths(img.max_bytes) :
               LET a == ReadFileBytesLimited(path, img.max_bytes)
               IN  img' = IF a.data # NoBytes THEN Returned("local", a)
                          ELSE [Tried("local", a) EXCEPT !.k = @ + 1]
       ELSE img' = [img EXCEPT !.pc = "url", !.k = 1]

\* 4. the next public URL.
TryUrl ==
    /\ img.pc = "url"
    /\ IF img.k <= Len(UrlsToTry(img.file))
       THEN \E response \in [raises : BOOLEAN, ok : BOOLEAN, size : Sizes(img.max_bytes)] :
               LET a == FetchUrl(response, img.max_bytes)
               IN  img' = IF a.data # NoBytes THEN Returned("url", a)
                          ELSE [Tried("url", a) EXCEPT !.k = @ + 1]
       ELSE img' = [img EXCEPT !.pc = "api", !.k = 1]

\* 5. the files API of the backend, when the handler has its base URL.
TryApi ==
    /\ img.pc = "api"
    /\ IF img.file.api
       THEN \E response \in [raises : BOOLEAN, ok : BOOLEAN, size : Sizes(img.max_bytes)] :
               LET a == FetchUrl(response, img.max_bytes)
               IN  img' = IF a.data # NoBytes THEN Returned("api", a)
                          ELSE FellThrough("api", a, "attr")
       ELSE img' = [img EXCEPT !.pc = "attr"]

\* 6. a bytes attribute of the file object, which ends the fetch; else None.
TryAttributes ==
    /\ img.pc = "attr"
    /\ IF img.file.content
       THEN \E size \in Sizes(img.max_bytes) :
               img' = Returned("attr", HeldLimited(size, img.max_bytes))
       ELSE img' = [img EXCEPT !.pc = "fetched", !.result = NoBytes]

\* _try_embed_image on the bytes, or the placeholder of a file without any.
EmbedFinish ==
    /\ img.pc = "fetched"
    /\ IF img.result = NoBytes
       THEN img' = Placed(FileUnavailable(img.file_id))
       ELSE \E readable \in BOOLEAN :
               img' = IF img.result.len = 0
                      THEN Placed(UnsupportedType)
                      ELSE IF readable
                      THEN [img EXCEPT !.pc = "done", !.runs = Append(@, Picture(img.result))]
                      ELSE [img EXCEPT !.pc = "done",
                                       !.runs = <<EmptyRun, ImagePlaceholder(img.alt, UnsupportedType)>>]

ImageNext ==
    \/ EmbedStart
    \/ DecodeDataUrl
    \/ LookupFile
    \/ TryInlineData
    \/ TryS3
    \/ TryLocalFile
    \/ TryUrl
    \/ TryApi
    \/ TryAttributes
    \/ EmbedFinish


AsmParked ==
    [pc |-> "parked", input |-> [lines |-> <<>>, valves |-> DefaultValves, docs |-> <<>>],
     st |-> [l |-> NewLocals(<<>>), s |-> NewHandler]]
SelfParked == NewHandler
TaskParked == [t \in Tasks |-> IdleTask]

TableInitAll ==
    /\ TableInit
    /\ cite = CiteParked /\ asm = AsmParked /\ self = SelfParked /\ task = TaskParked
    /\ rd = RenderParked /\ inl = InlineParked /\ img = ImageParked

TableNextAll == TableNext /\ UNCHANGED <<cite, asm, self, task, rd, inl, img>>

SpecTable == TableInitAll /\ [][TableNextAll]_vars

CiteInitAll ==
    /\ CiteInit
    /\ tb = TableParked /\ asm = AsmParked /\ self = SelfParked /\ task = TaskParked
    /\ rd = RenderParked /\ inl = InlineParked /\ img = ImageParked

CiteNextAll == CiteNext /\ UNCHANGED <<tb, asm, self, task, rd, inl, img>>

SpecCite == CiteInitAll /\ [][CiteNextAll]_vars

AsmInitAll ==
    /\ AsmInit
    /\ tb = TableParked /\ cite = CiteParked /\ self = SelfParked /\ task = TaskParked
    /\ rd = RenderParked /\ inl = InlineParked /\ img = ImageParked

AsmNextAll == AsmNext /\ UNCHANGED <<tb, cite, self, task, rd, inl, img>>

SpecAssemble == AsmInitAll /\ [][AsmNextAll]_vars

HandlerInitAll ==
    /\ HandlerInit
    /\ tb = TableParked /\ cite = CiteParked /\ asm = AsmParked
    /\ rd = RenderParked /\ inl = InlineParked /\ img = ImageParked

HandlerNextAll == HandlerNext /\ UNCHANGED <<tb, cite, asm, rd, inl, img>>

Spec == HandlerInitAll /\ [][HandlerNextAll]_vars

RenderInitAll ==
    /\ RenderInit
    /\ tb = TableParked /\ cite = CiteParked /\ asm = AsmParked
    /\ self = SelfParked /\ task = TaskParked /\ inl = InlineParked /\ img = ImageParked

RenderNextAll == RenderNext /\ UNCHANGED <<tb, cite, asm, self, task, inl, img>>

SpecRender == RenderInitAll /\ [][RenderNextAll]_vars

InlineInitAll ==
    /\ InlineInit
    /\ tb = TableParked /\ cite = CiteParked /\ asm = AsmParked
    /\ self = SelfParked /\ task = TaskParked /\ rd = RenderParked /\ img = ImageParked

InlineNextAll == InlineNext /\ UNCHANGED <<tb, cite, asm, self, task, rd, img>>

SpecInline == InlineInitAll /\ [][InlineNextAll]_vars

ImageInitAll ==
    /\ ImageInit
    /\ tb = TableParked /\ cite = CiteParked /\ asm = AsmParked
    /\ self = SelfParked /\ task = TaskParked /\ rd = RenderParked /\ inl = InlineParked

ImageNextAll == ImageNext /\ UNCHANGED <<tb, cite, asm, self, task, rd, inl>>

SpecImage == ImageInitAll /\ [][ImageNextAll]_vars

(***************************************************************************)
(* Claims                                                                  *)
(***************************************************************************)

\* C9: for every table laid out by add_table (1 to MaxTableCols columns, any
\* cell lengths), the final column widths, one per column, sum to the
\* available content width exactly, whether the proportional widths fit,
\* undershoot or overshoot.
C9_WidthsSumToAvailable ==
    tb.pc = "done" =>
        /\ Len(tb.widths) = Len(tb.lens)
        /\ SumSeq(tb.widths) = tb.avail

\* C9 witness: a 20-column table whose proportional widths overshoot, laid out
\* by equal division and a handed-out remainder.
C9_Witness ==
    /\ tb.pc = "done"
    /\ tb.path = "overshoot"
    /\ Len(tb.lens) = 20
    /\ \E ci, cj \in 1..Len(tb.widths) : tb.widths[ci] # tb.widths[cj]
    /\ SumSeq(tb.widths) = tb.avail

\* The dedup key the specification gives a document: the metadata source id,
\* else the group-level source id, else the literal "N/A".
ClaimKey(doc) ==
    IF Truthy(doc[1].source) THEN doc[1].source
    ELSE IF Truthy(doc[2].id) THEN doc[2].id
    ELSE <<"N", "/", "A">>

\* The documents that are the first of their key, in scan order.
FirstSeen(docs) ==
    LET firsts == {k \in 1..Len(docs) :
                      \A j \in 1..(k - 1) : ClaimKey(docs[j]) # ClaimKey(docs[k])}
        order == SortedSeq(firsts)
    IN  [k \in 1..Len(order) |-> docs[order[k]]]

\* C10: with M distinct dedup keys among the K documents scanned,
\* _build_citation_refs returns exactly M references, the i-th having index i
\* and the i-th key in first-encounter order, with the title and URL of the
\* first document of that key.
C10_CitationDedup ==
    cite.pc = "done" =>
        LET firsts == FirstSeen(cite.scanned)
        IN  /\ Len(cite.result) = Len(firsts)
            /\ Len(cite.result) = Cardinality({ClaimKey(cite.scanned[k]) : k \in 1..Len(cite.scanned)})
            /\ \A k \in 1..Len(cite.result) :
                /\ cite.result[k].idx = k
                /\ cite.result[k].source_id = ClaimKey(firsts[k])
                /\ cite.result[k].title = RefTitle(firsts[k][1], firsts[k][2])
                /\ cite.result[k].url = RefUrl(firsts[k][1], firsts[k][2])

\* C10 witness: three documents with two distinct keys, the repeated key
\* carrying another title the second time.
C10_Witness ==
    /\ cite.pc = "done"
    /\ Len(cite.scanned) = 3
    /\ Len(cite.result) = 2
    /\ \E j, k \in 1..3 :
        /\ j < k
        /\ ClaimKey(cite.scanned[j]) = ClaimKey(cite.scanned[k])
        /\ RefTitle(cite.scanned[j][1], cite.scanned[j][2])
             # RefTitle(cite.scanned[k][1], cite.scanned[k][2])

\* The document of the conversion of the same input with one more line.
DocWithLine(in, line) ==
    MarkdownToDocx(HandlerFor(in.valves), 1, in.docs, <<>>, FALSE,
                   Append(in.lines, line)).l.doc

\* C3: when the input ends inside an open code fence, the document is the one
\* the same input followed by a closing fence line gives (the body becomes a
\* code block or a diagram placeholder, never discarded).
C3_ImplicitFenceClose ==
    (asm.pc = "done" /\ asm.st.l.in_code_block) =>
        asm.st.l.doc = DocWithLine(asm.input, <<BQ, BQ, BQ>>)

\* blocks is a contiguous part of doc.
Contains(doc, blocks) ==
    \E p \in 0..(Len(doc) - Len(blocks)) : SubSeq(doc, p + 1, p + Len(blocks)) = blocks

\* C4: when the input ends inside an open display-math block, the document
\* holds a paragraph with the opening delimiter, one paragraph per body line
\* in order, and a paragraph with the matching closing delimiter.
C4_UnclosedMathVerbatim ==
    (asm.pc = "done" /\ asm.st.l.in_math_block) =>
        Contains(asm.st.l.doc,
                 <<ParagraphBlock(asm.st.l.math_block_delim)>>
                 \o [k \in 1..Len(asm.st.l.math_block_lines) |->
                        ParagraphBlock(asm.st.l.math_block_lines[k])]
                 \o <<ParagraphBlock(MathCloser(asm.st.l.math_block_delim))>>)

\* The configuration an invocation is owed: the defaults (SHOW_STATUS as the
\* administrator set it, no invocation writes it) with its own overrides
\* layered on.
OwnValves(t) ==
    ApplyUserValves([DefaultValves EXCEPT !.SHOW_STATUS = self.valves.SHOW_STATUS],
                    task[t].input.valves)

\* The document the invocation's conversion gives on a handler of its own.
AloneDoc(t) ==
    LET in == task[t].input
        content == StripReasoningBlocks(in.content)
        valves == OwnValves(t)
    IN  MarkdownToDocx([NewHandler EXCEPT !.valves = valves,
                                          !.user_lang = GetLangKey(valves.UI_LANGUAGE)],
                       t, in.sources, TopHeading(valves.TITLE_SOURCE, in.chat_title, content),
                       HasH1(content), content).l.doc

Converted(t) ==
    task[t].pc \in {"await_call", "await_exported_status", "await_success"}
    \/ (task[t].pc = "returned" /\ task[t].result = "Download triggered")

\* C1: while a conversion is suspended at its progress notification, the
\* scratch state of the handler stays as the conversion left it, whatever
\* other conversions start meanwhile; and a conversion that overlapped with
\* another (no invocation overriding the configuration) returns the document
\* it returns when run alone.
C1_ConversionsIsolated ==
    \A t \in Tasks :
        /\ task[t].pc = "await_progress" => Scratch(self) = task[t].scratch
        /\ (Converted(t) /\ \A u \in Tasks : ~task[u].input.valves.given)
              => task[t].doc = AloneDoc(t)

\* C2: the configuration an invocation in progress reads is the default
\* configuration with its own overrides, whatever other invocations were
\* made before it or overlap with it; without overrides of its own it is the
\* default configuration.
C2_ValvesCopyOnUse ==
    \A t \in Tasks :
        task[t].pc \notin {"idle", "returned"} => self.valves = OwnValves(t)

HasStatus(t, done) ==
    \E k \in 1..Len(task[t].events) :
        task[t].events[k].type = "status" /\ task[t].events[k].done = done

\* C5: an invocation that emitted the start status (done false) and has
\* returned has emitted a status with done true: on completion, on a failure
\* and on an empty message.
C5_StatusClosed ==
    \A t \in Tasks :
        (task[t].pc = "returned" /\ HasStatus(t, FALSE)) => HasStatus(t, TRUE)

\* C6: an invocation without an emitter, of a message with content and with
\* the script channel given, has on return handed over the package of the
\* document the conversion gives when an emitter is supplied.
C6_EmitterOmittable ==
    \A t \in Tasks :
        (/\ task[t].pc = "returned"
         /\ ~task[t].input.emitter
         /\ task[t].input.event_call
         /\ ~task[t].input.raises
         /\ ~NoContent(StripReasoningBlocks(task[t].input.content)))
        => task[t].handed = <<Package(AloneDoc(t))>>

\* C18: with SHOW_STATUS off, no invocation has handed a status event to its
\* emitter: not the start status, not a progress status, not the completion
\* status, not the failure status.
C18_StatusSuppressed ==
    ~self.valves.SHOW_STATUS =>
        \A t \in Tasks : \A k \in 1..Len(task[t].events) : task[t].events[k].type # "status"

\* The steps whose throw reaches the outer catch.
Escaped == rd.thrown \cap {"load", "unpack", "repackage"}

\* C7: when the script is done the package was downloaded exactly once (and
\* never before): the original bytes when no placeholder is found or when
\* script loading, unpacking or repackaging threw, else the patched package,
\* in which exactly the diagrams whose render succeeded are patched, the
\* others keeping their stand-in; a failed initialization of the renderer
\* is ignored and changes none of this.
C7_DeliveredOnce ==
    /\ rd.pc \notin {"done", "parked"} => rd.delivered = <<>>
    /\ rd.pc = "done" =>
          /\ Len(rd.delivered) = 1
          /\ IF Placeholders(rd.bytes, 1) = <<>> \/ Escaped # {}
             THEN rd.delivered[1] = rd.bytes
             ELSE /\ rd.delivered[1] = Patched(rd.bytes, rd.placeholders, rd.results, rd.pngs)
                  /\ \A j \in 1..Len(rd.placeholders) :
                        LET block == rd.delivered[1][rd.placeholders[j]]
                        IN  IF rd.results[j] THEN block.svg = "rendered"
                            ELSE block = rd.bytes[rd.placeholders[j]]

\* C7 witness: the renderer's initialization failed, of three diagrams the
\* second failed to render, and the package downloaded once has the first and
\* the third patched.
C7_Witness ==
    /\ rd.pc = "done"
    /\ rd.thrown = {"setup"}
    /\ Len(rd.placeholders) = 3
    /\ rd.results = <<TRUE, FALSE, TRUE>>
    /\ Len(rd.delivered) = 1
    /\ rd.delivered[1][rd.placeholders[1]].svg = "rendered"
    /\ rd.delivered[1][rd.placeholders[2]].svg = "stand-in"
    /\ rd.delivered[1][rd.placeholders[3]].svg = "rendered"

\* C7 as stated: the original bytes are downloaded when any step threw, the
\* rendering setup included.
C7_SetupFailureFallsBack ==
    rd.pc = "done" =>
        /\ Len(rd.delivered) = 1
        /\ IF Placeholders(rd.bytes, 1) = <<>> \/ rd.thrown # {}
           THEN rd.delivered[1] = rd.bytes
           ELSE rd.delivered[1] = Patched(rd.bytes, rd.placeholders, rd.results, rd.pngs)

\* C8: in every iteration of the scan loop, whichever branch is taken, the
\* scan position strictly increases (and stays within the text), and an
\* interior handed to a recursive call is strictly shorter than the text of
\* the caller; no activation is entered deeper than the text is long. (An
\* iteration that raises ends the scan there and has no next position.)
C8_ScanAdvances ==
    /\ inl.last.branch \notin {None, "return", "raise"} =>
          /\ inl.last.to > inl.last.from
          /\ inl.last.to <= inl.last.n + 1
          /\ inl.last.recurse => inl.last.inner < inl.last.n
    /\ \A k \in 1..(Len(inl.stack) - 1) :
          Len(inl.stack[k + 1].text) < Len(inl.stack[k].text)

\* C8 witness: a bold interior was resolved inside a strikethrough interior,
\* both recursive calls have returned and the resolver is done.
C8_Witness ==
    /\ inl.pc = "done"
    /\ inl.stack = <<>>
    /\ \E k \in 1..Len(inl.out) :
          /\ inl.out[k].kind = "text"
          /\ inl.out[k].bold
          /\ inl.out[k].strike

\* The diagram placeholders of a document, in document order.
Diagrams(doc) == SelectSeq(doc, LAMBDA b : b.kind = "diagram")

\* The line the loop is at closes a diagram fence.
ClosesDiagram(st) ==
    /\ st.l.i <= Len(st.l.lines)
    /\ st.l.in_code_block
    /\ IsFenceLine(st.l.lines[st.l.i])
    /\ Lower(st.l.code_block_lang) = <<"m", "e", "r", "m", "a", "i", "d">>

C12_FetchFailsClosed ==
    /\ img.last.data # NoBytes =>
           /\ img.last.data.len = img.last.size
           /\ img.last.data.of = img.last.size
           /\ img.last.size <= img.max_bytes
    /\ img.last.size > img.max_bytes => img.last.data = NoBytes
    /\ img.last.amt <= img.max_bytes + 1
    /\ img.result # NoBytes =>
           /\ img.result.len = img.result.of
           /\ img.result.len <= img.max_bytes

\* A stream holding more than the cap was read, by cap + 1 bytes, and gave
\* nothing; a later strategy then returned a resource of exactly the cap.
C12_Witness ==
    /\ img.pc = "fetched"
    /\ Len(img.tried) >= 2
    /\ img.tried[1] = "s3"
    /\ img.last.amt = img.max_bytes + 1
    /\ img.result = Held(img.max_bytes)

\* The explanations an image that is not embedded is replaced with.
ImageReasons ==
    {MissingUrl, InvalidDataUrl(img.mb), ExternalUrl, FileUnavailable(img.file_id),
     UnsupportedType}

\* The URL is neither missing, nor a data URL, nor the URL of a stored file.
IsExternal(url) ==
    LET u == Strip(url)
    IN  /\ u # <<>>
        /\ ~(Len(u) >= 5 /\ Lower(SubSeq(u, 1, 5)) = <<"d", "a", "t", "a", ":">>)
        /\ \A p \in 1..Len(u) : FileIdAt(u, p) = NoStr

\* The paragraph has got nothing before the end, and at the end either the
\* picture alone, or exactly one bracketed placeholder with one of the
\* explanations and no picture (a refused picture leaves its empty run).
OneOutcome ==
    /\ img.pc # "done" => img.runs = <<>>
    /\ img.pc = "done" =>
           \/ img.runs = <<Picture(img.result)>> /\ img.result # NoBytes
           \/ /\ \A k \in 1..Len(img.runs) : img.runs[k].kind # "picture"
              /\ Cardinality({k \in 1..Len(img.runs) : img.runs[k] # EmptyRun}) = 1
              /\ \E reason \in ImageReasons :
                     img.runs[Len(img.runs)] = ImagePlaceholder(img.alt, reason)

\* An external URL enters neither the decoding nor the lookup of a stored
\* file, and at the end no fetch has been tried for it and it is answered with
\* its placeholder.
ExternalNotFetched ==
    (img.pc \in {"data", "lookup", "done"} /\ IsExternal(img.url)) =>
        /\ img.pc = "done"
        /\ img.tried = <<>> /\ img.file_id = NoStr /\ img.result = NoBytes
        /\ img.runs = <<ImagePlaceholder(img.alt, ExternalUrl)>>

\* C13: embedding one image, whatever the fetch meets (a failed read, an
\* oversized file, a missing record), ends with exactly one of two outcomes:
\* the picture, or one bracketed placeholder with one of the five
\* explanations; nothing else is written. An external URL is never fetched
\* and gets the 'external URL' placeholder.
C13_EmbedOrPlaceholder ==
    OneOutcome /\ ExternalNotFetched

\* An external URL that names a host and an image file has been answered.
C13_Witness ==
    /\ img.pc = "done"
    /\ IsExternal(img.url)
    /\ StartsWith(img.url, <<"h", "t", "t", "p", ":", "/", "/">>)
    /\ img.runs = <<ImagePlaceholder(img.alt, ExternalUrl)>>

\* The entries of the References section of a conversion with the reference
\* list refs, in document order (none when no section is appended).
ReferenceEntries(refs) ==
    LET st == [l |-> NewLocals(<<>>), s |-> [NewHandler EXCEPT !.citation_refs = refs]]
    IN  SelectSeq(ConvFinish(st).l.doc, LAMBDA b : b.kind = "reference")

\* The References heading is in the document of a conversion with refs.
HasReferences(refs) ==
    LET st == [l |-> NewLocals(<<>>), s |-> [NewHandler EXCEPT !.citation_refs = refs]]
        doc == ConvFinish(st).l.doc
    IN  \E k \in 1..Len(doc) : doc[k] = HeadingBlock(GetMsg("en", "references"), 2)

\* text has, at p, a marker [N] of digits only, closed at the returned
\* position and not followed by a parenthesised URL; 0 otherwise. Numeric(_)
\* says which strings count as purely numeric.
MarkerClose(text, p, Numeric(_)) ==
    LET close == Find(text, <<"]">>, p + 1)
    IN  IF /\ p >= 1 /\ p <= Len(text) /\ text[p] = "["
           /\ close # 0
           /\ Numeric(SubSeq(text, p + 1, close - 1))
           /\ ~(/\ close + 1 <= Len(text) /\ text[close + 1] = "("
                /\ Find(text, <<")">>, close + 2) # 0)
        THEN close ELSE 0

\* The reference index a marker's digits name, 0 when they name none.
Known(inner, refs) ==
    IF IsDecimalStr(inner) /\ ToInt(inner) \in 1..Len(refs) THEN ToInt(inner) ELSE 0

\* The texts of the runs, put together.
RECURSIVE OutText(_)
OutText(runs) == IF runs = <<>> THEN <<>> ELSE Head(runs).text \o OutText(Tail(runs))

\* What the resolver owes a numeric marker, for a notion of 'purely numeric'.
MarkersResolve(Numeric(_)) ==
    LET entries == ReferenceEntries(inl.refs)
    IN  /\ HasReferences(inl.refs) <=> inl.refs # <<>>
        /\ Len(entries) = Len(inl.refs)
        \* a cross-reference names a reference, and points at its bookmark
        /\ \A k \in 1..Len(inl.out) :
              inl.out[k].kind = "citation" =>
                 \E n \in 1..Len(entries) :
                    /\ inl.out[k].text = <<"[">> \o Str(n) \o <<"]">>
                    /\ inl.refs[n].idx = n
                    /\ inl.out[k].anchor = entries[n].anchor
        \* the iteration at a marker: the cross-reference, or the bracket as text
        /\ (/\ inl.stack # <<>>
            /\ inl.last.branch \notin {None, "return"}
            /\ ~inl.last.recurse
            /\ MarkerClose(Top.text, inl.last.from, Numeric) # 0) =>
              LET close == MarkerClose(Top.text, inl.last.from, Numeric)
                  n == Known(SubSeq(Top.text, inl.last.from + 1, close - 1), inl.refs)
              IN  IF n # 0
                  THEN /\ inl.last.branch = "citation"
                       /\ inl.last.to = close + 1
                       /\ inl.out[Len(inl.out)] = CitationRun(n, entries[n].anchor)
                  ELSE /\ inl.last.branch = "literal"
                       /\ inl.last.to = inl.last.from + 1
                       /\ inl.out[Len(inl.out)].kind = "text"
                       /\ inl.out[Len(inl.out)].text = <<"[">>
        \* a text that is one marker of no reference comes out as it went in
        /\ (/\ inl.pc # "scan"
            /\ MarkerClose(inl.text, 1, Numeric) = Len(inl.text)
            /\ Known(SubSeq(inl.text, 2, Len(inl.text) - 1), inl.refs) = 0) =>
              /\ inl.pc = "done"
              /\ \A k \in 1..Len(inl.out) : inl.out[k].kind = "text"
              /\ OutText(inl.out) = inl.text

\* C14: within one conversion a purely numeric marker [N] that is not
\* followed by a parenthesised URL becomes an internal cross-reference exactly
\* when N is the index of a reference of the conversion, with the anchor that
\* is bookmarked on entry N of the References section; otherwise its
\* characters come out unchanged as plain text. The References section is
\* appended exactly when the reference list is not empty. Purely numeric is
\* what the code tests: str.isdigit.
C14_CitationMarkers == MarkersResolve(IsDigitStr)

\* The same for the markers of decimal digits, which is where int(inner) is
\* defined.
DecimalMarkersResolve == MarkersResolve(IsDecimalStr)

\* A marker of a reference was resolved between markers of none.
DecimalMarkersWitness ==
    /\ inl.pc = "done"
    /\ Len(inl.refs) = 2
    /\ \E k \in 1..Len(inl.out) : inl.out[k] = CitationRun(2, Anchor(2))
    /\ \E k \in 1..Len(inl.out) : inl.out[k].kind = "text" /\ inl.out[k].text = <<"1", "2", "]">>

\* The resolver has returned from the text, and what it added is the text
\* itself in runs of plain text.
Verbatim(text) ==
    (inl.pc # "scan" /\ inl.text = text) =>
        /\ inl.pc = "done"
        /\ \A k \in 1..Len(inl.out) :
              inl.out[k].kind = "text" /\ ~inl.out[k].bold /\ ~inl.out[k].italic /\ ~inl.out[k].strike
        /\ OutText(inl.out) = text

\* C15: $5 and $5.00 give no inline equation, and neither does $ x $ with
\* whitespace inside the delimiters: their characters, the dollar signs
\* included, come out as plain text. $x+y$ gives exactly one inline equation
\* with the content x+y (when the dollar math options are on and the LaTeX
\* converter works). Every iteration that rejects a dollar sign adds it as a
\* literal character and goes one character on.
C15_DollarDisambiguation ==
    /\ Verbatim(<<"$", "5">>)
    /\ Verbatim(<<"$", "5", ".", "0", "0">>)
    /\ Verbatim(<<"$", " ", "x", " ", "$">>)
    /\ (inl.pc # "scan" /\ inl.text = <<"$", "x", "+", "y", "$">> /\ inl.math = MathOn) =>
          /\ inl.pc = "done"
          /\ inl.out = <<[kind |-> "equation", text |-> <<"x", "+", "y">>,
                          bold |-> FALSE, italic |-> FALSE, strike |-> FALSE]>>
    /\ inl.last.branch = "dollar_literal" =>
          /\ inl.last.to = inl.last.from + 1
          /\ Top.text[inl.last.from] = "$"
          /\ inl.out[Len(inl.out)] = Run("text", <<"$">>, Top)

\* $x+y$ has been resolved to its equation.
C15_Witness ==
    /\ inl.pc = "done"
    /\ inl.text = <<"$", "x", "+", "y", "$">>
    /\ inl.math.dollar
    /\ Len(inl.out) = 1
    /\ inl.out[1].kind = "equation"

\* The iteration at a backslash that is followed by a character of the
\* escapable set adds that character, in the style of the surrounding span,
\* and goes on behind both characters; with math_first, a backslash that
\* opens an inline equation \( ... \) is left to the equation.
EscapeConsumesBoth(math_first) ==
    (/\ inl.stack # <<>>
     /\ inl.last.branch \notin {None, "return", "raise"}
     /\ ~inl.last.recurse
     /\ Top.text[inl.last.from] = BSL
     /\ inl.last.from + 1 <= Len(Top.text)
     /\ Top.text[inl.last.from + 1] \in EscapeSet
     /\ ~(/\ math_first
          /\ Top.text[inl.last.from + 1] = "("
          /\ Find(Top.text, <<BSL, ")">>, inl.last.from + 2) # 0)) =>
        /\ inl.last.branch = "escape"
        /\ inl.last.to = inl.last.from + 2
        /\ inl.out # <<>>
        /\ inl.out[Len(inl.out)] = Run("text", <<Top.text[inl.last.from + 1]>>, Top)

\* \*not bold\* comes out as the plain text *not bold*.
NotBoldLiteral ==
    (inl.pc # "scan"
       /\ inl.text = <<BSL, "*", "n", "o", "t", " ", "b", "o", "l", "d", BSL, "*">>) =>
        /\ inl.pc = "done"
        /\ OutText(inl.out) = <<"*", "n", "o", "t", " ", "b", "o", "l", "d", "*">>
        /\ \A k \in 1..Len(inl.out) :
              inl.out[k].kind = "text" /\ ~inl.out[k].bold /\ ~inl.out[k].italic /\ ~inl.out[k].strike

\* C16: \*not bold\* resolves to runs of plain text that read *not bold*,
\* none of them bold, italic or struck through; and at every scan position a
\* backslash followed by a character of the escapable set adds that character
\* literally and consumes both characters, unless the backslash opens an
\* inline equation \( ... \), which has precedence.
C16_EscapeLiteral == NotBoldLiteral /\ EscapeConsumesBoth(TRUE)

\* \*not bold\* has been resolved: the star, the words, the star.
C16_Witness ==
    /\ inl.pc = "done"
    /\ inl.text = <<BSL, "*", "n", "o", "t", " ", "b", "o", "l", "d", BSL, "*">>
    /\ Len(inl.out) = 3
    /\ inl.out[1].text = <<"*">>
    /\ inl.out[3].text = <<"*">>

\* C16 as it is worded: every backslash before a character of the escapable
\* set, "(" included, adds that character literally and consumes both.
C16_EscapeAlways == NotBoldLiteral /\ EscapeConsumesBoth(FALSE)

\* Cell ci of a row, empty where the row is shorter.
CellOf(row, ci) == IF ci <= Len(row) THEN row[ci] ELSE <<>>

\* The alignment a separator cell stands for.
AlignOf(cell) ==
    IF cell[1] = ":" /\ cell[Len(cell)] = ":" THEN "center"
    ELSE IF cell[Len(cell)] = ":" THEN "right"
    ELSE "left"

\* C17: for a transcript that begins with a run of at least two pipe lines:
\* if every cell of the second row matches :?-{3,}:? the row is left out of
\* the body and gives each column its alignment (colon on both sides center,
\* trailing colon only right, otherwise left; left for a column it has no cell
\* for); otherwise every row after the first is a body row and every column
\* is left-aligned. "| a | b |", "|---:|:---:|", "| 1 | 2 |" gives two
\* columns, right and center, the header a, b and the one body row 1, 2.
C17_TableParsing ==
    LET lines == asm.input.lines
        n == TableRun(lines, 1)
        rows == [k \in 1..n |-> SplitRow(lines[k])]
    IN  (asm.pc # "parked" /\ IsTableStart(lines[1]) /\ n >= 2 /\ asm.st.l.i > n) =>
          /\ asm.st.l.doc # <<>>
          /\ LET t == asm.st.l.doc[1]
                 separated == \A k \in 1..Len(rows[2]) : IsSeparatorCell(rows[2][k])
                 first == IF separated THEN 3 ELSE 2
             IN  /\ t.kind = "table"
                 /\ \A k \in 1..n : k # 2 \/ ~separated => Len(rows[k]) <= t.num_cols
                 /\ \E k \in 1..n : (k # 2 \/ ~separated) /\ Len(rows[k]) = t.num_cols
                 /\ Len(t.header) = t.num_cols /\ Len(t.aligns) = t.num_cols
                 /\ \A ci \in 1..t.num_cols : t.header[ci] = CellOf(rows[1], ci)
                 /\ Len(t.body) = n - first + 1
                 /\ \A k \in 1..Len(t.body) :
                       /\ Len(t.body[k]) = t.num_cols
                       /\ \A ci \in 1..t.num_cols : t.body[k][ci] = CellOf(rows[first + k - 1], ci)
                 /\ \A ci \in 1..t.num_cols :
                       t.aligns[ci] = IF separated /\ ci <= Len(rows[2])
                                      THEN AlignOf(rows[2][ci]) ELSE "left"
          /\ lines = << <<"|", " ", "a", " ", "|", " ", "b", " ", "|">>,
                        <<"|", "-", "-", "-", ":", "|", ":", "-", "-", "-", ":", "|">>,
                        <<"|", " ", "1", " ", "|", " ", "2", " ", "|">> >> =>
                asm.st.l.doc[1] = [kind |-> "table", num_cols |-> 2,
                                   header |-> << <<"a">>, <<"b">> >>,
                                   body |-> << << <<"1">>, <<"2">> >> >>,
                                   aligns |-> <<"right", "center">>]

\* The table of the three lines is in the finished document.
C17_Witness ==
    /\ asm.pc = "done"
    /\ asm.input.lines[1] = <<"|", " ", "a", " ", "|", " ", "b", " ", "|">>
    /\ Len(asm.input.lines) = 3
    /\ asm.st.l.doc # <<>>
    /\ asm.st.l.doc[1].kind = "table"
    /\ asm.st.l.doc[1].aligns = <<"right", "center">>

\* The caption paragraphs of a document, in document order.
Captions(doc) == SelectSeq(doc, LAMBDA b : b.kind = "caption")

\* The caption prefix in force: the configured one, stripped, or the figure
\* word of the language.
CaptionPrefix(st) ==
    IF Strip(st.s.valves.MERMAID_CAPTION_PREFIX) # <<>>
    THEN Strip(st.s.valves.MERMAID_CAPTION_PREFIX)
    ELSE GetMsg(st.s.user_lang, "figure_prefix")

\* The caption paragraphs owed to a diagram of the given title that is the
\* seq-th captioned one: "{prefix} {seq}: {title}", "{prefix} {seq}", the
\* bare title, or none.
CaptionOwed(prefix, seq, title) ==
    IF prefix # <<>> /\ Truthy(title)
    THEN << [kind |-> "caption", text |-> prefix \o <<" ">> \o Str(seq) \o <<":", " ">> \o title] >>
    ELSE IF prefix # <<>>
    THEN << [kind |-> "caption", text |-> prefix \o <<" ">> \o Str(seq)] >>
    ELSE IF Truthy(title)
    THEN << [kind |-> "caption", text |-> title] >>
    ELSE <<>>

PendingCount(l) ==
    (IF l.in_list THEN 1 ELSE 0) + (IF l.in_code_block THEN 1 ELSE 0)
    + (IF l.in_math_block THEN 1 ELSE 0)

\* The handlers a pending list is incompatible with: a display equation or
\* the opening of a math block, the opening of a code fence, a table, a
\* heading, a blockquote, a rule, a paragraph.
ListEnding ==
    {"math_single", "math_open", "fence_open", "table", "heading", "quote", "rule", "paragraph"}

C21_OrderPreserving ==
    [][(asm.pc = "loop" /\ Len(asm'.st.l.doc) > Len(asm.st.l.doc))
       => /\ asm.st.l.in_math_block => ~asm'.st.l.in_math_block
          /\ asm.st.l.in_code_block => ~asm'.st.l.in_code_block
          /\ asm.st.l.in_list =>
                LET owed == asm.st.l.doc
                            \o ListBlocks(asm.st.l.list_items, asm.st.l.list_type)
                IN  /\ Len(asm'.st.l.doc) >= Len(owed)
                    /\ SubSeq(asm'.st.l.doc, 1, Len(owed)) = owed]_vars

\* The invocation is suspended inside the line scan of its conversion: lines
\* before the index are processed, the line at the index and after are not.
MidScan(t) ==
    /\ task[t].pc \notin {"idle", "returned"}
    /\ 1 < task[t].l.i
    /\ task[t].l.i <= Len(task[t].l.lines)

\* C22: a conversion never suspends mid-parse: no invocation is ever
\* suspended between the first and the last line of its transcript, so no
\* step of another invocation falls between two line steps of a conversion.
C22_NoSuspensionMidParse ==
    /\ [](\A t \in Tasks : ~MidScan(t))
    /\ [][\A t, u \in Tasks : (MidScan(t) /\ u # t) => task'[u] = task[u]]_vars

\* The place in the stated dispatch order of the handler that consumed a line.
HandlerRank(handler) ==
    CASE handler \in {"math_single", "math_open", "math_close", "math_body"} -> 1
      [] handler \in {"fence_open", "fence_close", "fence_body"} -> 2
      [] handler = "table" -> 3
      [] handler = "heading" -> 4
      [] handler = "ulist" -> 5
      [] handler = "olist" -> 6
      [] handler = "quote" -> 7
      [] handler = "rule" -> 8
      [] handler = "blank" -> 9
      [] handler = "paragraph" -> 10
      [] OTHER -> 0

\* The line is display math: one-line display math, the opening delimiter of
\* a math block, or any line while a math block is open.
IsMathLine(st, line) ==
    \/ ExtractSingleLineMath(line) # NoStr
    \/ Strip(line) \in MathOpeners
    \/ st.l.in_math_block

\* The places of the dispatch order whose condition the line satisfies in
\* the state; math tells whether the line counts as display math.
Satisfied(st, line, math) ==
    {k \in 1..10 :
        CASE k = 1 -> math
          [] k = 2 -> IsFenceLine(line) \/ st.l.in_code_block
          [] k = 3 -> IsTableStart(line)
          [] k = 4 -> HeadingLevel(line) > 0
          [] k = 5 -> UnorderedMatch(line) # <<>>
          [] k = 6 -> OrderedMatch(line) # <<>>
          [] k = 7 -> IsQuoteLine(line)
          [] k = 8 -> IsRule(line)
          [] k = 9 -> Strip(line) = <<>>
          [] OTHER -> TRUE}

Least(S) == CHOOSE k \in S : \A j \in S : k <= j

\* Every iteration of the line loop is consumed by the first handler of the
\* order whose condition holds.
FirstMatchWins(Math(_, _)) ==
    (asm.pc = "loop" /\ asm'.pc = "loop")
    => HandlerRank(asm'.st.l.last)
         = Least(Satisfied(asm.st, asm.st.l.lines[asm.st.l.i],
                           Math(asm.st, asm.st.l.lines[asm.st.l.i])))

\* Display math as it is dispatched: only with math enabled and outside an
\* open code fence.
MathOutsideFence(st, line) ==
    st.s.valves.MATH_ENABLE /\ ~st.l.in_code_block /\ IsMathLine(st, line)

\* Display math as the order states it: whenever math is enabled.
MathAnywhere(st, line) == st.s.valves.MATH_ENABLE /\ IsMathLine(st, line)

\* C23: block dispatch follows the order display math, code fence, table,
\* heading, unordered item, ordered item, blockquote, rule, blank line,
\* paragraph with the first match winning, for every line in every state of
\* the assembler, where display math is matched only outside an open code
\* fence: inside one, every line but the closing fence continues the fence.
C23_DispatchPriority == [][FirstMatchWins(MathOutsideFence)]_vars

\* C23 as stated: display math is matched before the code fence in every
\* state, also for a one-line equation while a code fence is open.
C23_MathBeforeFence == [][FirstMatchWins(MathAnywhere)]_vars

\* A one-line display equation stood inside an open code fence and was
\* taken as a line of the code.
C23_Witness ==
    /\ asm.pc = "loop"
    /\ asm.st.l.last = "fence_body"
    /\ asm.st.l.in_code_block
    /\ asm.st.s.valves.MATH_ENABLE
    /\ asm.st.l.code_block_content # <<>>
    /\ ExtractSingleLineMath(asm.st.l.code_block_content[Len(asm.st.l.code_block_content)]) # NoStr

\* The runs the step added to the paragraph.
AddedRuns == SubSeq(inl'.out, Len(inl.out) + 1, Len(inl'.out))

\* The step resolved a code span; CodeInterior is the text between its
\* backquotes.
CodeSpanStep == inl.pc = "scan" /\ inl'.last.branch = "code" /\ inl'.last.from = Top.i
CodeInterior == SubSeq(Top.text, Top.i + 1, inl'.last.to - 2)

\* C24: the contents of an inline code span are verbatim: the step that
\* resolves a code span adds only inline-code runs, with exactly the text
\* between the backquotes, and creates no emphasis, link, citation, math or
\* autolink span from it.
C24_CodeVerbatim ==
    [][CodeSpanStep =>
          /\ \A k \in 1..Len(AddedRuns) :
                /\ AddedRuns[k].kind = "code"
                /\ ~AddedRuns[k].bold /\ ~AddedRuns[k].italic /\ ~AddedRuns[k].strike
          /\ OutText(AddedRuns) = CodeInterior]_vars

\* What does hold of a code span: its characters are all kept, in order, in
\* runs of the code font, of which those holding a bare URL are hyperlinks.
CodeSpanTextKept ==
    [][CodeSpanStep =>
          /\ \A k \in 1..Len(AddedRuns) : AddedRuns[k].kind \in {"code", "code_link"}
          /\ OutText(AddedRuns) = CodeInterior]_vars

\* The place of a strategy in the order of the fetch.
StrategyRank(strategy) ==
    CASE strategy = "inline" -> 1
      [] strategy = "s3" -> 2
      [] strategy = "local" -> 3
      [] strategy = "url" -> 4
      [] strategy = "api" -> 5
      [] OTHER -> 6

\* The strategies the file object gives something to try with.
Applicable(file) ==
    (IF file.data \in {"bytes", "b64"} THEN {"inline"} ELSE {})
    \cup (IF file.path = "s3" THEN {"s3"} ELSE {})
    \cup (IF LocalCandidates(file) # <<>> THEN {"local"} ELSE {})
    \cup (IF UrlsToTry(file) # <<>> THEN {"url"} ELSE {})
    \cup (IF file.api THEN {"api"} ELSE {})

\* C25: the fetch of a stored file tries its strategies in the order inline
\* bytes, object storage, local files, public URL, API; and a strategy that
\* fails never ends it: when the fetch has returned without bytes, every
\* strategy the file object is applicable to was tried.
C25_StrategiesExhausted ==
    /\ \A j, k \in 1..Len(img.tried) :
          j < k => StrategyRank(img.tried[j]) <= StrategyRank(img.tried[k])
    /\ (img.pc = "fetched" /\ img.result = NoBytes)
          => \A strategy \in Applicable(img.file) :
                \E k \in 1..Len(img.tried) : img.tried[k] = strategy

\* The table built from a transcript that begins with a run of at least two
\* pipe lines has as many columns as the longest of its counted rows has
\* cells, and each of its rows is the row of the run with empty cells added
\* on the right up to that number. The header and the body rows are counted;
\* the separator row is when with_separator says so.
TableColumns(with_separator) ==
    LET lines == asm.input.lines
        n == TableRun(lines, 1)
        rows == [k \in 1..n |-> SplitRow(lines[k])]
    IN  (asm.pc # "parked" /\ IsTableStart(lines[1]) /\ n >= 2 /\ asm.st.l.i > n) =>
          LET t == asm.st.l.doc[1]
              first == n - Len(t.body) + 1
              counted == {1} \cup first..n \cup (IF with_separator THEN 1..n ELSE {})
          IN  /\ t.kind = "table"
              /\ first \in {2, 3}
              /\ \A k \in counted : Len(rows[k]) <= t.num_cols
              /\ \E k \in counted : Len(rows[k]) = t.num_cols
              /\ Len(t.header) = t.num_cols
              /\ \A ci \in 1..t.num_cols : t.header[ci] = CellOf(rows[1], ci)
              /\ \A k \in 1..Len(t.body) :
                    /\ Len(t.body[k]) = t.num_cols
                    /\ \A ci \in 1..t.num_cols : t.body[k][ci] = CellOf(rows[first + k - 1], ci)

\* C26: the column count of a table is the largest cell count of its header
\* and body rows (the separator row, which is no row of the table, is not
\* counted), and the header and every body row with fewer cells is padded on
\* the right with empty cells, so that every row has exactly that many cells.
C26_ColumnCount == TableColumns(FALSE)

\* C26 as stated: the separator row counts for the column count as well.
C26_SeparatorCounted == TableColumns(TRUE)

\* A table of two columns was built whose last row had the one cell "3".
C26_Witness ==
    /\ asm.pc = "done"
    /\ asm.st.l.doc # <<>>
    /\ asm.st.l.doc[1].kind = "table"
    /\ asm.st.l.doc[1].num_cols = 2
    /\ asm.st.l.doc[1].body = << << <<"1">>, <<"2">> >>, << <<"3">>, <<>> >> >>

\* The blocks a step of the conversion adds to the document.
NewBlocks == SubSeq(asm'.st.l.doc, Len(asm.st.l.doc) + 1, Len(asm'.st.l.doc))

\* The source a diagram fence has when no title directive is taken out of it:
\* the fence body after the layout rewrite, normalised.
Untitled(st) ==
    NormalizeMermaidText(IF st.s.valves.MERMAID_OPTIMIZE_LAYOUT
                         THEN OptimizeLayout(JoinLines(st.l.code_block_content))
                         ELSE JoinLines(st.l.code_block_content))

\* C27: at the step that closes a diagram fence, the source stored with the
\* placeholder lacks a title directive of the fence body exactly when the
\* caption added under the placeholder ends with the title of that
\* directive: no title is taken out of the source without being shown, and
\* none is shown while its directive stays in the source, whether captions
\* are enabled or not and wherever the title line stands.
C27_TitleNeverLost ==
    [][(asm.pc = "loop" /\ ClosesDiagram(asm.st))
       => /\ NewBlocks # <<>>
          /\ NewBlocks[1].kind = "diagram"
          /\ (NewBlocks[1].source # Untitled(asm.st))
             <=> /\ Len(NewBlocks) = 2
                 /\ NewBlocks[2].kind = "caption"
                 /\ Truthy(ExtractMermaidTitle(JoinLines(asm.st.l.code_block_content)))
                 /\ EndsWith(NewBlocks[2].text,
                             ExtractMermaidTitle(JoinLines(asm.st.l.code_block_content)))]_vars

\* The handlers of the line loop that consume a run of lines.
RunHandlers == {"table", "quote"}

\* C28: the line index of a conversion stays within 1..len(lines)+1 and
\* never decreases; every iteration of the line loop advances it, by exactly
\* one line in every handler but the table and blockquote runs, which
\* consume the line that triggered them and the lines of their kind that
\* follow it; so the distance to the end of the transcript shrinks at every
\* iteration and the loop ends after at most len(lines) iterations.
C28_LoopAdvances ==
    /\ [](asm.pc # "parked" => asm.st.l.i \in 1..(Len(asm.st.l.lines) + 1))
    /\ [][/\ asm'.st.l.i >= asm.st.l.i
          /\ asm'.st.l.lines = asm.st.l.lines
          /\ (asm.pc = "loop" /\ asm.st.l.i <= Len(asm.st.l.lines))
             => /\ asm'.st.l.i > asm.st.l.i
                /\ asm'.st.l.last \notin RunHandlers => asm'.st.l.i = asm.st.l.i + 1
                /\ asm'.st.l.last = "table"
                   => \A k \in asm.st.l.i..(asm'.st.l.i - 1) : IsTableLine(asm.st.l.lines[k])
                /\ asm'.st.l.last = "quote"
                   => \A k \in asm.st.l.i..(asm'.st.l.i - 1) : IsQuoteLine(asm.st.l.lines[k])]_vars

\* A table run of three lines was consumed in one iteration, and the loop
\* stands at the fourth and last line of the transcript.
C28_Witness ==
    /\ asm.pc = "loop"
    /\ asm.st.l.last = "table"
    /\ asm.st.l.i = 4
    /\ Len(asm.st.l.lines) = 4

\* An iteration of the line loop that hands a run of at least shortest pipe
\* lines to add_table adds a table block as the last block of the step; its
\* first row holds the cells of the run's first line, and every later line
\* of the run (but a separator in second place) is a body row of its cells.
TableKept(shortest) ==
    (/\ asm.pc = "loop"
     /\ asm.st.l.i <= Len(asm.st.l.lines)
     /\ asm'.st.l.last = "table"
     /\ asm'.st.l.i >= asm.st.l.i + shortest)
    => /\ NewBlocks # <<>>
       /\ NewBlocks[Len(NewBlocks)].kind = "table"
       /\ \A k \in asm.st.l.i..(asm'.st.l.i - 1) :
             \/ k = asm.st.l.i + 1 /\ IsSeparatorRow(SplitRow(asm.st.l.lines[k]))
             \/ \E row \in {NewBlocks[Len(NewBlocks)].header}
                           \cup {NewBlocks[Len(NewBlocks)].body[b] :
                                    b \in 1..Len(NewBlocks[Len(NewBlocks)].body)} :
                   /\ k = asm.st.l.i => row = NewBlocks[Len(NewBlocks)].header
                   /\ \A ci \in 1..Len(row) : row[ci] = CellOf(SplitRow(asm.st.l.lines[k]), ci)
                   /\ Len(row) >= Len(SplitRow(asm.st.l.lines[k]))

\* C29: no run of pipe lines handed to the table layout is discarded: the
\* run, be it of a single line, yields a table block whose rows hold the
\* cells of the lines of the run.
C29_NoTableDiscarded == [][TableKept(1)]_vars

\* The invocation has reported success: its completion status ("exported",
\* done), its success notification, or its "Download triggered" result.
SuccessReported(t) ==
    \/ \E k \in 1..Len(task[t].events) :
          \/ /\ task[t].events[k].type = "status"
             /\ task[t].events[k].done
             /\ Len(task[t].events[k].description) = 2
             /\ task[t].events[k].description[2] = "exported"
          \/ /\ task[t].events[k].type = "notification"
             /\ task[t].events[k].ntype = "success"
    \/ task[t].result = "Download triggered"

\* C30: an invocation that has reported success was given the script
\* channel and has handed the serialized package to it before; without the
\* channel no success is reported.
C30_SuccessAfterDelivery ==
    \A t \in Tasks :
        SuccessReported(t) => (task[t].input.event_call /\ task[t].handed # <<>>)

====
